---- MODULE Spec2Model ----
(***************************************************************************)
(* FlowBoard server: the task event handlers (ws/handlers/task.handler.ts), *)
(* the task service (services/taskService.ts), the move lock               *)
(* (services/conflictService.ts) and the write-behind flush queue          *)
(* (jobs/dbFlushWorker.ts), as a state machine.                            *)
(*                                                                         *)
(* Every handler is an async function started with `void handler(...)`     *)
(* (ws/router.ts), so handlers interleave at their awaits.  One step of a  *)
(* handler is one awaited round trip to Redis, to the queue or to the      *)
(* database; a socket emission is a step of its own.                       *)
(*                                                                         *)
(* Orders are JavaScript numbers; the model keeps them as integers in      *)
(* units of 1/OrderScale (0.5 is OrderScale \div 2).                        *)
(***************************************************************************)
EXTENDS Integers, Sequences, FiniteSets, TLC

\* ---------------------------------------------------------------- bounds

\* Number of client events the server receives in a run.
MaxOps == 2

\* Bits of the significand of a number (53 in JavaScript).
MantissaBits == 3

\* Number of direct calls of enqueueDatabaseFlush in a run of SpecFlush.
MaxEnqueues == 3

\* Milliseconds that pass in one step of the clock of SpecFlush.
TickMs == 250

\* Largest whole order among the arguments of the function calls of SpecCalls.
MaxOrder == 3

\* --------------------------------------------------------------- domains

TaskIds == {"t1", "t2", "t3"}
Columns == {"todo", "in-progress", "done"}
Sockets == {"s1", "s2"}
Handlers == 1..MaxOps

\* Inputs: the values client payloads are drawn from.
PayloadIds == {"t1", "t2"}
PayloadColumns == {"todo", "done"}
PayloadTitles == {"B"}
PayloadDescriptions == {"d"}

Null == "null"

\* Units per 1.0 of a task's order.
OrderScale == 2
PayloadOrders == {OrderScale \div 2, OrderScale}

SERVER_ID == "server:pid"
NoOwner == ""

\* ----------------------------------------------------------------- tasks

\* An empty Redis hash / a missing row: `!hash.id` is true of it.
NoTask == [id |-> "", columnId |-> "", title |-> "", description |-> "",
           order |-> 0, version |-> 0]

Exists(task) == task.id # ""

MkTask(id, col, title, desc, order, version) ==
    [id |-> id, columnId |-> col, title |-> title, description |-> desc,
     order |-> order, version |-> version]

\* --------------------------------------------------------- fractionalIndex

Abs(x) == IF x < 0 THEN -x ELSE x

\* The spacing of the numbers next to x: JavaScript numbers are binary
\* floating point, here with a significand of MantissaBits bits over the
\* unit 1/OrderScale, so every multiple of the unit below 2^MantissaBits
\* units is a number, every second one in the next binade, and so on.
Ulp(x) ==
    IF Abs(x) < 2^MantissaBits THEN 1
    ELSE IF Abs(x) < 2^(MantissaBits + 1) THEN 2
    ELSE IF Abs(x) < 2^(MantissaBits + 2) THEN 4
    ELSE 8

\* The number an arithmetic result x is rounded to: the nearest one, a tie
\* going to the even significand.
RoundFloat(x) ==
    LET u == Ulp(x)
        q == x \div u
        r == x - q * u
    IN IF 2 * r < u THEN q * u
       ELSE IF 2 * r > u THEN (q + 1) * u
       ELSE IF q % 2 = 0 THEN q * u ELSE (q + 1) * u

\* prev and next are <<>> (null) or <<x>>.
\* const lo = prev ?? 0
orderLow(prev) == IF prev = <<>> THEN 0 ELSE prev[1]

\* const hi = next ?? lo + 1
orderHigh(prev, next) ==
    IF next = <<>> THEN RoundFloat(orderLow(prev) + OrderScale) ELSE next[1]

\* if (lo >= hi) throw new RangeError(...)
InvalidRange(prev, next) == orderLow(prev) >= orderHigh(prev, next)

\* return (lo + hi) / 2, for lo < hi
orderBetween(prev, next) ==
    RoundFloat(orderLow(prev) + orderHigh(prev, next)) \div 2

\* |next - prev| < 1e-9: below the resolution 1/OrderScale only a zero gap.
needsRebalance(prev, next) == prev = next

\* ------------------------------------------------------------------ state

VARIABLES
    taskHash,   \* Redis task:{id} hashes
    colSet,     \* Redis column:{col}:tasks sets
    boardSet,   \* Redis board:tasks set
    lock,       \* Redis task:{id}:lock strings
    db,         \* rows of the tasks table, by id
    jobs,       \* the db-flush queue, by job id
    h,          \* the handler invocations
    started,    \* number of events received so far
    wire,       \* everything the server emitted, in emission order
    audit,      \* rows of the conflict_audit_log table, in insertion order
    ttlExpired, \* the task ids whose lock key Redis has expired (history)
    local,      \* each client's board store (useBoardStore.tasks)
    delivered,  \* how much of `wire` each client's socket has received
    replay,     \* handleReplayOps: the sorted operations still to dispatch
    hist,       \* the operations handleReplayOps dispatched, in order (history)
    lockBy,     \* the handler whose SET created the lock key, 0 if none (history)
    runs,       \* how many jobs of each job id the worker has executed (history)
    flush,      \* the enqueueDatabaseFlush calls so far and the time since the last
    calc,       \* one call of a pure function: its arguments and its outcome
    pres,       \* Redis presence:{socketId} hashes and the presence:active set
    gap,        \* the getAllPresences call: its position and what it read
    conn        \* the socket connections and their presence handlers

vars == <<taskHash, colSet, boardSet, lock, db, jobs, h, started, wire, audit,
          ttlExpired, local, delivered, replay, hist, lockBy, runs, flush,
          calc, pres, gap, conn>>

sideVars == <<calc, pres, gap, conn>>

clientVars == <<local, delivered>>

\* ----------------------------------------------------------------- queue

JobIds == {<<"task", t>> : t \in TaskIds} \cup {<<"rebalance", c>> : c \in Columns}

NoJob == [state |-> "none", operation |-> "", task |-> NoTask, taskId |-> "",
          columnId |-> "", age |-> 0, step |-> "", updates |-> <<>>]

UpsertJob(task) == [state |-> "delayed", operation |-> "upsert", task |-> task,
                    taskId |-> "", columnId |-> "", age |-> 0, step |-> "", updates |-> <<>>]
DeleteJob(id) == [state |-> "delayed", operation |-> "delete", task |-> NoTask,
                  taskId |-> id, columnId |-> "", age |-> 0, step |-> "", updates |-> <<>>]
RebalanceJob(col) == [state |-> "delayed", operation |-> "rebalance",
                      task |-> NoTask, taskId |-> "", columnId |-> col, age |-> 0,
                      step |-> "", updates |-> <<>>]

JobIdOf(payload) ==
    IF payload.operation = "upsert" THEN <<"task", payload.task.id>>
    ELSE IF payload.operation = "delete" THEN <<"task", payload.taskId>>
    ELSE <<"rebalance", payload.columnId>>

\* const FLUSH_DELAY = 500, in milliseconds
FLUSH_DELAY == 500

\* No enqueueDatabaseFlush call has been made: `since` is the time since the
\* last call (counted up to FLUSH_DELAY), `calls` the number of calls, and
\* `ok` whether every call came less than FLUSH_DELAY after the one before.
NoFlush == [since |-> 0, calls |-> 0, ok |-> TRUE]

\* No function call: a call is the function's name, its arguments, whether it
\* has run, whether it threw and, if it returned, the value.
NoCall == [fn |-> "", args |-> <<>>, done |-> FALSE, thrown |-> FALSE, value |-> 0]

\* No presence:{socketId} hash (`hash`), an empty presence:active set
\* (`active`) and no socket connected so far (`joined`).
NoPresence == [hash |-> {}, active |-> {}, joined |-> {}]

\* getAllPresences is not running.
IdleGap == [pc |-> "idle", socketIds |-> {}, presences |-> {}, staleIds |-> {}]

\* The sockets that connect.
ConnIds == {"s1", "s2"}

\* The sockets that send a PRESENCE_UPDATE.
Editors == {"s1"}

\* A presence handler that has not been called: its position and what its
\* getAllPresences has read.
IdleProc == [pc |-> "idle", socketIds |-> {}, presences |-> {}, staleIds |-> {}]

\* A presence handler that has returned.
DoneProc == [IdleProc EXCEPT !.pc = "done"]

\* No socket has connected: `up` is new, open or closed, `oc`, `od` and `pu`
\* are the socket's onConnect, onDisconnect and handlePresenceUpdate, and
\* `late` (history) says that a PRESENCE_STATE has listed the socket after it
\* had disconnected and its handlers had finished.
NoConn ==
    [c \in ConnIds |->
        [up |-> "new", oc |-> IdleProc, od |-> IdleProc, pu |-> IdleProc, late |-> FALSE]]

\* --------------------------------------------------------------- handlers

NoPayload == [id |-> "", columnId |-> "", title |-> Null, description |-> Null,
              order |-> 0]

\* `wrote` (history): the handler's getAllTasks has replaced a cached task by
\* a different one.
IdleH == [pc |-> "idle", ret |-> "", op |-> "", sock |-> "", p |-> NoPayload,
          ids |-> {}, all |-> {}, cur |-> NoTask, upd |-> NoTask, jb |-> NoJob,
          acquired |-> FALSE, err |-> "", wrote |-> FALSE]

DoneH == [IdleH EXCEPT !.pc = "done"]

Msg(ev, to, task, code) == [ev |-> ev, to |-> to, task |-> task, code |-> code]

CreatePayloads == {[NoPayload EXCEPT !.id = t, !.columnId = c, !.title = ti]
                     : t \in PayloadIds, c \in PayloadColumns, ti \in PayloadTitles}

UpdatePayloads == {[NoPayload EXCEPT !.id = t, !.title = ti, !.description = d]
                     : t \in PayloadIds, ti \in PayloadTitles \cup {Null},
                       d \in PayloadDescriptions \cup {Null}}
                  \ {[NoPayload EXCEPT !.id = t] : t \in PayloadIds}

MovePayloads == {[NoPayload EXCEPT !.id = t, !.columnId = c, !.order = o]
                   : t \in PayloadIds, c \in PayloadColumns, o \in PayloadOrders}

DeletePayloads == {[NoPayload EXCEPT !.id = t] : t \in PayloadIds}

\* ------------------------------------------------------------------- Init

\* handleReplayOps is not running.
NoReplay == [active |-> FALSE, sock |-> "", batch |-> <<>>, ops |-> <<>>, n |-> 0]

InitTask1 == MkTask("t1", "todo", "A", "", OrderScale \div 2, 1)

\* The board after TASK_CREATE of t1 in the empty column todo, flushed.
InitBoards == {{InitTask1}}

RowsOf(board) == [t \in TaskIds |->
                    IF \E x \in board : x.id = t
                    THEN CHOOSE x \in board : x.id = t ELSE NoTask]

Init ==
    /\ \E board \in InitBoards :
          /\ taskHash = RowsOf(board)
          /\ colSet = [c \in Columns |->
                         {x.id : x \in {y \in board : y.columnId = c}}]
          /\ boardSet = {x.id : x \in board}
          /\ db = RowsOf(board)
          \* every client has loaded the BOARD_SNAPSHOT
          /\ local = [s \in Sockets |-> RowsOf(board)]
    /\ delivered = [s \in Sockets |-> 0]
    /\ ttlExpired = {}
    /\ replay = NoReplay
    /\ hist = <<>>
    /\ lockBy = [t \in TaskIds |-> 0]
    /\ runs = [j \in JobIds |-> 0]
    /\ flush = NoFlush
    /\ calc = NoCall
    /\ pres = NoPresence
    /\ gap = IdleGap
    /\ conn = NoConn
    /\ lock = [t \in TaskIds |-> NoOwner]
    /\ jobs = [j \in JobIds |-> NoJob]
    /\ h = [i \in Handlers |-> IdleH]
    /\ started = 0
    /\ wire = <<>>
    /\ audit = <<>>

\* ------------------------------------------------------------ cache writes

\* cacheTask: HSET + EXPIRE + SADD column + SADD board, one pipeline.
cacheTask(task) ==
    /\ taskHash' = [taskHash EXCEPT ![task.id] = task]
    /\ colSet' = [colSet EXCEPT ![task.columnId] = @ \cup {task.id}]
    /\ boardSet' = boardSet \cup {task.id}

\* deleteTask's pipeline: DEL + SREM column + SREM board.
deletePipeline(existing) ==
    /\ taskHash' = [taskHash EXCEPT ![existing.id] = NoTask]
    /\ colSet' = [colSet EXCEPT ![existing.columnId] = @ \ {existing.id}]
    /\ boardSet' = boardSet \ {existing.id}

CacheUnchanged == UNCHANGED <<taskHash, colSet, boardSet>>

\* ------------------------------------------------------------------- lock

\* A SET without NX would always reply OK.
LockFree_withoutNX(taskId) == TRUE

\* SET key SERVER_ID PX 2000 NX: TRUE when the reply is OK.
LockFree(taskId) == lock[taskId] = NoOwner

acquireMoveLock(taskId) ==
    lock' = IF LockFree(taskId) THEN [lock EXCEPT ![taskId] = SERVER_ID] ELSE lock

\* A release that leaves the key in place.
releaseMoveLock_keep(taskId) == lock' = lock

\* The Lua script: delete the key only if its value is SERVER_ID.
releaseMoveLock(taskId) ==
    lock' = IF lock[taskId] = SERVER_ID THEN [lock EXCEPT ![taskId] = NoOwner]
            ELSE lock

\* ------------------------------------------------------- receiving events

Emit(m) == wire' = Append(wire, m)

\* The sockets an event may come from: the first event's socket is called s1.
SocketsNow == IF started = 0 THEN {"s1"} ELSE Sockets

Receive(i, op, sock, payload, pc, ret) ==
    /\ started < MaxOps
    /\ i = started + 1
    /\ started' = i
    /\ h' = [h EXCEPT ![i] = [IdleH EXCEPT !.pc = pc, !.ret = ret, !.op = op,
                                           !.sock = sock, !.p = payload]]
    /\ UNCHANGED <<sideVars, flush, taskHash, colSet, boardSet, lock, db, jobs, wire, audit, ttlExpired,
                   delivered, replay, hist, lockBy, runs>>

\* handleTaskCreate up to its first await (createTask -> getAllTasks).
RecvTaskCreate(i) ==
    \E sock \in SocketsNow, payload \in CreatePayloads :
        /\ Receive(i, "create", sock, payload, "gat_smembers", "cr_cache")
        /\ UNCHANGED local

\* handleTaskUpdate up to its first await (updateTask -> getTask).
RecvTaskUpdate(i) ==
    \E sock \in SocketsNow, payload \in UpdatePayloads :
        /\ Receive(i, "update", sock, payload, "gt_hgetall", "")
        /\ UNCHANGED local

\* handleTaskMove up to its first await (getAllTasks).
RecvTaskMove(i) ==
    \E sock \in SocketsNow, payload \in MovePayloads :
        /\ Receive(i, "move", sock, payload, "gat_smembers", "mv_find")
        /\ UNCHANGED local

\* handleTaskDelete up to its first await (deleteTask -> getTask).
RecvTaskDelete(i) ==
    \E sock \in SocketsNow, payload \in DeletePayloads :
        /\ Receive(i, "delete", sock, payload, "gt_hgetall", "")
        /\ UNCHANGED local

\* A validation failure answered with a broadcast instead of a private reply.
RecvInvalid_broadcast(i) ==
    \E sock \in SocketsNow :
        /\ started < MaxOps
        /\ i = started + 1
        /\ started' = i
        /\ h' = [h EXCEPT ![i] = DoneH]
        /\ Emit(Msg("ERROR", "all", NoTask, "VALIDATION_ERROR"))
        /\ UNCHANGED <<sideVars, flush, taskHash, colSet, boardSet, lock, db, jobs, audit, ttlExpired,
                       clientVars, replay, hist, lockBy, runs>>

\* A payload that fails safeParse in handleTaskCreate, handleTaskUpdate,
\* handleTaskMove, handleTaskDelete or handleReplayOps: emitError and return,
\* no await.
RecvInvalid(i) ==
    \E sock \in SocketsNow :
        /\ started < MaxOps
        /\ i = started + 1
        /\ started' = i
        /\ h' = [h EXCEPT ![i] = DoneH]
        /\ Emit(Msg("ERROR", sock, NoTask, "VALIDATION_ERROR"))
        /\ UNCHANGED <<sideVars, flush, taskHash, colSet, boardSet, lock, db, jobs, audit, ttlExpired, clientVars, replay, hist, lockBy, runs>>

\* ------------------------------------------------------------ getAllTasks

\* moveTask's neighbour check on the column read back after the write.
RebalanceNeeded(tasks, updated) ==
    LET column == {t \in tasks : t.columnId = updated.columnId /\ t.id # updated.id}
        after == {t \in column : t.order > updated.order}
        before == column \ after
        \* idx = findIndex(t.order > updated.order) = Cardinality(before), or -1
        nextOrders == {t.order : t \in after}
        prevOrders == {t.order : t \in before}
        nextO == CHOOSE o \in nextOrders : \A x \in nextOrders : o <= x
        prevO == CHOOSE o \in prevOrders : \A x \in prevOrders : o >= x
    IN /\ after # {}
       /\ \/ before # {} /\ needsRebalance(prevO, updated.order)
          \/ needsRebalance(updated.order, nextO)

\* handleTaskMove going on to the lock without looking the task up.
GatReturn_noFind(hr, tasks) ==
    IF hr.ret = "cr_cache" THEN
        [hr EXCEPT !.pc = "cr_cache", !.ids = {}, !.all = tasks]
    ELSE IF hr.ret = "mv_find" THEN
        [hr EXCEPT !.pc = "mv_acquire", !.ids = {}, !.all = {}]
    ELSE
        [hr EXCEPT !.pc = "mv_emit", !.ids = {}, !.all = {}]

\* The continuation of the caller once getAllTasks has returned `tasks`.
GatReturn(hr, tasks) ==
    IF hr.ret = "cr_cache" THEN
        [hr EXCEPT !.pc = "cr_cache", !.ids = {}, !.all = tasks]
    ELSE IF hr.ret = "mv_find" THEN
        \* allTasks.find((t) => t.id === payload.id)
        IF \E t \in tasks : t.id = hr.p.id
        THEN [hr EXCEPT !.pc = "mv_acquire", !.ids = {}, !.all = {},
                        !.cur = CHOOSE t \in tasks : t.id = hr.p.id]
        ELSE [hr EXCEPT !.pc = "err_emit", !.ids = {}, !.all = {},
                        !.err = "NOT_FOUND"]
    ELSE \* "mv_check"
        IF RebalanceNeeded(tasks, hr.upd)
        THEN [hr EXCEPT !.pc = "enq_get", !.ret = "mv_emit", !.ids = {}, !.all = {},
                        !.jb = RebalanceJob(hr.upd.columnId)]
        ELSE [hr EXCEPT !.pc = "mv_emit", !.ids = {}, !.all = {}]

\* redis.smembers(BOARD_KEY)
GatSmembers(i) ==
    /\ h[i].pc = "gat_smembers"
    /\ h' = [h EXCEPT ![i] = [@ EXCEPT !.ids = boardSet,
                 !.pc = IF boardSet = {} THEN "gat_select" ELSE "gat_hgetall"]]
    /\ UNCHANGED <<sideVars, flush, taskHash, colSet, boardSet, lock, db, jobs, started, wire, audit, ttlExpired, clientVars, replay, hist, lockBy, runs>>

\* The pipeline of HGETALLs; hashes without an id are skipped.
GatHgetall(i) ==
    /\ h[i].pc = "gat_hgetall"
    /\ LET tasks == {taskHash[t] : t \in {x \in h[i].ids : Exists(taskHash[x])}}
       IN h' = [h EXCEPT ![i] = IF tasks # {} THEN GatReturn(@, tasks)
                                ELSE [@ EXCEPT !.pc = "gat_select", !.ids = {}]]
    /\ UNCHANGED <<sideVars, flush, taskHash, colSet, boardSet, lock, db, jobs, started, wire, audit, ttlExpired, clientVars, replay, hist, lockBy, runs>>

\* Cold boot: select * from tasks.
GatSelect(i) ==
    /\ h[i].pc = "gat_select"
    /\ LET data == {db[t] : t \in {x \in TaskIds : Exists(db[x])}}
       IN h' = [h EXCEPT ![i] = IF data = {} THEN GatReturn(@, {})
                                ELSE [@ EXCEPT !.pc = "gat_warm", !.all = data,
                                               !.ids = {x.id : x \in data}]]
    /\ UNCHANGED <<sideVars, flush, taskHash, colSet, boardSet, lock, db, jobs, started, wire, audit, ttlExpired, clientVars, replay, hist, lockBy, runs>>

\* Promise.all(tasks.map(cacheTask)): one pipeline per task.
GatWarm(i) ==
    /\ h[i].pc = "gat_warm"
    /\ \E t \in h[i].ids :
         /\ cacheTask(CHOOSE x \in h[i].all : x.id = t)
         /\ LET hw == [h[i] EXCEPT !.wrote =
                         @ \/ (Exists(taskHash[t]) /\ taskHash'[t] # taskHash[t])]
            IN h' = [h EXCEPT ![i] = IF h[i].ids = {t} THEN GatReturn(hw, h[i].all)
                                     ELSE [hw EXCEPT !.ids = @ \ {t}]]
    /\ UNCHANGED <<sideVars, flush, lock, db, jobs, started, wire, audit, ttlExpired, clientVars, replay, hist, lockBy, runs>>

\* ---------------------------------------------------------------- getTask

\* The continuation of the caller once getTask has returned `existing`.
GtReturn(hr, existing) ==
    IF hr.op = "update" THEN
        IF Exists(existing) THEN [hr EXCEPT !.pc = "up_cache", !.cur = existing]
        ELSE [hr EXCEPT !.pc = "err_emit", !.err = "NOT_FOUND"]
    ELSE IF hr.op = "move" THEN
        IF Exists(existing)
        THEN [hr EXCEPT !.cur = existing,
                        !.pc = IF existing.columnId # hr.p.columnId
                               THEN "mv_srem" ELSE "mv_cache"]
        ELSE [hr EXCEPT !.pc = "mv_err_emit", !.cur = NoTask, !.err = "NOT_FOUND"]
    ELSE \* "delete"
        IF Exists(existing) THEN [hr EXCEPT !.pc = "del_pipe", !.cur = existing]
        ELSE [hr EXCEPT !.pc = "del_emit"]

\* getTaskFromCache: redis.hgetall(TASK_KEY(id))
GtHgetall(i) ==
    /\ h[i].pc = "gt_hgetall"
    /\ LET cached == taskHash[h[i].p.id]
       IN h' = [h EXCEPT ![i] = IF Exists(cached) THEN GtReturn(@, cached)
                                ELSE [@ EXCEPT !.pc = "gt_select"]]
    /\ UNCHANGED <<sideVars, flush, taskHash, colSet, boardSet, lock, db, jobs, started, wire, audit, ttlExpired, clientVars, replay, hist, lockBy, runs>>

\* Cache miss: select the row.
GtSelect(i) ==
    /\ h[i].pc = "gt_select"
    /\ LET row == db[h[i].p.id]
       IN h' = [h EXCEPT ![i] = IF Exists(row)
                                THEN [@ EXCEPT !.pc = "gt_cache", !.cur = row]
                                ELSE GtReturn(@, NoTask)]
    /\ UNCHANGED <<sideVars, flush, taskHash, colSet, boardSet, lock, db, jobs, started, wire, audit, ttlExpired, clientVars, replay, hist, lockBy, runs>>

\* ... and re-populate Redis with it.
GtCache(i) ==
    /\ h[i].pc = "gt_cache"
    /\ cacheTask(h[i].cur)
    /\ h' = [h EXCEPT ![i] = GtReturn(@, h[i].cur)]
    /\ UNCHANGED <<sideVars, flush, lock, db, jobs, started, wire, audit, ttlExpired, clientVars, replay, hist, lockBy, runs>>

\* ---------------------------------------------------- enqueueDatabaseFlush

\* The continuation of the caller once enqueueDatabaseFlush has returned.
EnqReturn(hr) ==
    IF hr.ret = "mv_gat"
    THEN [hr EXCEPT !.pc = "gat_smembers", !.ret = "mv_check", !.jb = NoJob]
    ELSE [hr EXCEPT !.pc = hr.ret, !.ret = "", !.jb = NoJob]

\* queue.getJob(jobId)
EnqGet(i) ==
    /\ h[i].pc = "enq_get"
    /\ h' = [h EXCEPT ![i] = [@ EXCEPT !.pc =
                 IF jobs[JobIdOf(h[i].jb)].state # "none" THEN "enq_remove"
                 ELSE "enq_add"]]
    /\ UNCHANGED <<sideVars, flush, taskHash, colSet, boardSet, lock, db, jobs, started, wire, audit, ttlExpired, clientVars, replay, hist, lockBy, runs>>

\* existingJob.remove(): fails on a job a worker holds; the error is ignored.
EnqRemove(i) ==
    /\ h[i].pc = "enq_remove"
    /\ LET j == JobIdOf(h[i].jb)
       IN jobs' = IF jobs[j].state \in {"delayed", "completed"}
                  THEN [jobs EXCEPT ![j] = NoJob] ELSE jobs
    /\ h' = [h EXCEPT ![i] = [@ EXCEPT !.pc = "enq_add"]]
    /\ UNCHANGED <<sideVars, flush, taskHash, colSet, boardSet, lock, db, started, wire, audit, ttlExpired, clientVars, replay, hist, lockBy, runs>>

\* queue.add(..., {jobId, delay}): a job id that still exists is not added again.
EnqAdd(i) ==
    /\ h[i].pc = "enq_add"
    /\ LET j == JobIdOf(h[i].jb)
       IN jobs' = IF jobs[j].state = "none"
                  THEN [jobs EXCEPT ![j] = h[i].jb] ELSE jobs
    /\ h' = [h EXCEPT ![i] = EnqReturn(@)]
    /\ UNCHANGED <<sideVars, flush, taskHash, colSet, boardSet, lock, db, started, wire, audit, ttlExpired, clientVars, replay, hist, lockBy, runs>>

\* ------------------------------------------------------------- createTask

\* columnTasks[columnTasks.length - 1]?.order ?? null
LastOrder(payload, allTasks) ==
    LET orders == {t.order : t \in {x \in allTasks : x.columnId = payload.columnId}}
    IN IF orders = {} THEN <<>>
       ELSE <<CHOOSE o \in orders : \A x \in orders : o >= x>>

\* The task createTask builds from the board it read.
NewTask(payload, allTasks) ==
    MkTask(payload.id, payload.columnId, payload.title,
           IF payload.description = Null THEN "" ELSE payload.description,
           orderBetween(LastOrder(payload, allTasks), <<>>), 1)

\* await cacheTask(task); a RangeError of orderBetween is caught by createTask
\* and returned as CREATE_FAILED.
CreateCache(i) ==
    /\ h[i].pc = "cr_cache"
    /\ IF InvalidRange(LastOrder(h[i].p, h[i].all), <<>>)
       THEN /\ CacheUnchanged
            /\ h' = [h EXCEPT ![i] = [@ EXCEPT !.pc = "err_emit", !.ret = "",
                                        !.all = {}, !.err = "CREATE_FAILED"]]
       ELSE LET task == NewTask(h[i].p, h[i].all)
            IN /\ cacheTask(task)
               /\ h' = [h EXCEPT ![i] = [@ EXCEPT !.pc = "enq_get", !.ret = "cr_emit",
                                           !.all = {}, !.upd = task,
                                           !.jb = UpsertJob(task)]]
    /\ UNCHANGED <<sideVars, flush, lock, db, jobs, started, wire, audit, ttlExpired, clientVars, replay, hist, lockBy, runs>>

\* io.emit('TASK_CREATED', result.data)
CreateEmit(i) ==
    /\ h[i].pc = "cr_emit"
    /\ Emit(Msg("TASK_CREATED", "all", h[i].upd, ""))
    /\ h' = [h EXCEPT ![i] = DoneH]
    /\ UNCHANGED <<sideVars, flush, taskHash, colSet, boardSet, lock, db, jobs, started, audit, ttlExpired, clientVars, replay, hist, lockBy, runs>>

\* ------------------------------------------------------------- updateTask

\* {...existing, title ?? , description ?? , version + 1}
UpdatedTask(existing, payload) ==
    [existing EXCEPT
        !.title = IF payload.title = Null THEN existing.title ELSE payload.title,
        !.description = IF payload.description = Null THEN existing.description
                        ELSE payload.description,
        !.version = existing.version + 1]

\* await cacheTask(updated)
UpdateCache(i) ==
    /\ h[i].pc = "up_cache"
    /\ LET updated == UpdatedTask(h[i].cur, h[i].p)
       IN /\ cacheTask(updated)
          /\ h' = [h EXCEPT ![i] = [@ EXCEPT !.pc = "enq_get", !.ret = "up_emit",
                                      !.cur = NoTask, !.upd = updated,
                                      !.jb = UpsertJob(updated)]]
    /\ UNCHANGED <<sideVars, flush, lock, db, jobs, started, wire, audit, ttlExpired, clientVars, replay, hist, lockBy, runs>>

\* io.emit('TASK_UPDATED', result.data)
UpdateEmit(i) ==
    /\ h[i].pc = "up_emit"
    /\ Emit(Msg("TASK_UPDATED", "all", h[i].upd, ""))
    /\ h' = [h EXCEPT ![i] = DoneH]
    /\ UNCHANGED <<sideVars, flush, taskHash, colSet, boardSet, lock, db, jobs, started, audit, ttlExpired, clientVars, replay, hist, lockBy, runs>>

\* emitError(socket, result.code, result.message) of create/update/delete, and the
\* NOT_FOUND of handleTaskMove before the lock.
ErrEmit(i) ==
    /\ h[i].pc = "err_emit"
    /\ Emit(Msg("ERROR", h[i].sock, NoTask, h[i].err))
    /\ h' = [h EXCEPT ![i] = DoneH]
    /\ UNCHANGED <<sideVars, flush, taskHash, colSet, boardSet, lock, db, jobs, started, audit, ttlExpired, clientVars, replay, hist, lockBy, runs>>

\* --------------------------------------------------------- handleTaskMove

\* await acquireMoveLock(payload.id, current)
MoveAcquire(i) ==
    /\ h[i].pc = "mv_acquire"
    /\ acquireMoveLock(h[i].p.id)
    /\ h' = [h EXCEPT ![i] =
               IF LockFree(h[i].p.id)
               THEN [@ EXCEPT !.pc = "gt_hgetall", !.acquired = TRUE, !.cur = NoTask]
               ELSE [@ EXCEPT !.pc = "mv_conflict"]]
    /\ lockBy' = IF LockFree(h[i].p.id) THEN [lockBy EXCEPT ![h[i].p.id] = i] ELSE lockBy
    /\ UNCHANGED <<sideVars, flush, taskHash, colSet, boardSet, db, jobs, started, wire, audit, ttlExpired,
                   clientVars, replay, hist, runs>>

\* The conflict announced with io.emit instead of socket.emit.
MoveConflict_broadcast(i) ==
    /\ h[i].pc = "mv_conflict"
    /\ Emit(Msg("CONFLICT_NOTIFY", "all", h[i].cur, ""))
    /\ audit' = Append(audit, [taskId |-> h[i].p.id, loserUserId |-> h[i].sock,
                               resolvedState |-> h[i].cur])
    /\ h' = [h EXCEPT ![i] = DoneH]
    /\ UNCHANGED <<sideVars, flush, taskHash, colSet, boardSet, lock, db, jobs, started, ttlExpired, clientVars, replay, hist, lockBy, runs>>

\* The loser: socket.emit('CONFLICT_NOTIFY', ...) with resolvedState = current, and
\* the audit row of logConflict.
MoveConflict(i) ==
    /\ h[i].pc = "mv_conflict"
    /\ Emit(Msg("CONFLICT_NOTIFY", h[i].sock, h[i].cur, ""))
    /\ audit' = Append(audit, [taskId |-> h[i].p.id, loserUserId |-> h[i].sock,
                               resolvedState |-> h[i].cur])
    /\ h' = [h EXCEPT ![i] = DoneH]
    /\ UNCHANGED <<sideVars, flush, taskHash, colSet, boardSet, lock, db, jobs, started, ttlExpired, clientVars, replay, hist, lockBy, runs>>

\* A move that does not advance the version.
MovedTask_sameVersion(existing, payload) ==
    [existing EXCEPT !.columnId = payload.columnId, !.order = payload.order]

\* {...existing, columnId, order, version + 1}
MovedTask(existing, payload) ==
    [existing EXCEPT !.columnId = payload.columnId, !.order = payload.order,
                     !.version = existing.version + 1]

\* await redis.srem(COLUMN_KEY(existing.columnId), existing.id)
MoveSrem(i) ==
    /\ h[i].pc = "mv_srem"
    /\ colSet' = [colSet EXCEPT ![h[i].cur.columnId] = @ \ {h[i].cur.id}]
    /\ h' = [h EXCEPT ![i] = [@ EXCEPT !.pc = "mv_cache"]]
    /\ UNCHANGED <<sideVars, flush, taskHash, boardSet, lock, db, jobs, started, wire, audit, ttlExpired, clientVars, replay, hist, lockBy, runs>>

\* await cacheTask(updated)
MoveCache(i) ==
    /\ h[i].pc = "mv_cache"
    /\ LET updated == MovedTask(h[i].cur, h[i].p)
       IN /\ cacheTask(updated)
          /\ h' = [h EXCEPT ![i] = [@ EXCEPT !.pc = "enq_get", !.ret = "mv_gat",
                                      !.cur = NoTask, !.upd = updated,
                                      !.jb = UpsertJob(updated)]]
    /\ UNCHANGED <<sideVars, flush, lock, db, jobs, started, wire, audit, ttlExpired, clientVars, replay, hist, lockBy, runs>>

\* io.emit('TASK_MOVED', result.data)
MoveEmit(i) ==
    /\ h[i].pc = "mv_emit"
    /\ Emit(Msg("TASK_MOVED", "all", h[i].upd, ""))
    /\ h' = [h EXCEPT ![i] = [@ EXCEPT !.pc = "mv_release", !.upd = NoTask]]
    /\ UNCHANGED <<sideVars, flush, taskHash, colSet, boardSet, lock, db, jobs, started, audit, ttlExpired, clientVars, replay, hist, lockBy, runs>>

\* moveTask returned NOT_FOUND under the lock: emitError, then the finally block.
MoveErrEmit(i) ==
    /\ h[i].pc = "mv_err_emit"
    /\ Emit(Msg("ERROR", h[i].sock, NoTask, h[i].err))
    /\ h' = [h EXCEPT ![i] = [@ EXCEPT !.pc = "mv_release", !.err = ""]]
    /\ UNCHANGED <<sideVars, flush, taskHash, colSet, boardSet, lock, db, jobs, started, audit, ttlExpired, clientVars, replay, hist, lockBy, runs>>

\* A handler that returns without the finally block.
MoveRelease_skip(i) ==
    /\ h[i].pc = "mv_release"
    /\ h' = [h EXCEPT ![i] = DoneH]
    /\ UNCHANGED <<sideVars, flush, taskHash, colSet, boardSet, lock, lockBy, db, jobs, started, wire,
                   audit, ttlExpired, clientVars, replay, hist, runs>>

\* finally { await releaseMoveLock(payload.id) }
MoveRelease(i) ==
    /\ h[i].pc = "mv_release"
    /\ releaseMoveLock(h[i].p.id)
    /\ h' = [h EXCEPT ![i] = DoneH]
    /\ lockBy' = [lockBy EXCEPT ![h[i].p.id] = IF lock'[h[i].p.id] = NoOwner THEN 0 ELSE @]
    /\ UNCHANGED <<sideVars, flush, taskHash, colSet, boardSet, db, jobs, started, wire, audit, ttlExpired,
                   clientVars, replay, hist, runs>>

\* ------------------------------------------------------------- deleteTask

\* The DEL/SREM/SREM pipeline.
DeletePipe(i) ==
    /\ h[i].pc = "del_pipe"
    /\ deletePipeline(h[i].cur)
    /\ h' = [h EXCEPT ![i] = [@ EXCEPT !.pc = "enq_get", !.ret = "del_emit",
                                !.cur = NoTask, !.jb = DeleteJob(h[i].p.id)]]
    /\ UNCHANGED <<sideVars, flush, lock, db, jobs, started, wire, audit, ttlExpired, clientVars, replay, hist, lockBy, runs>>

\* io.emit('TASK_DELETED', { id })
DeleteEmit(i) ==
    /\ h[i].pc = "del_emit"
    /\ Emit(Msg("TASK_DELETED", "all", [NoTask EXCEPT !.id = h[i].p.id], ""))
    /\ h' = [h EXCEPT ![i] = DoneH]
    /\ UNCHANGED <<sideVars, flush, taskHash, colSet, boardSet, lock, db, jobs, started, audit, ttlExpired, clientVars, replay, hist, lockBy, runs>>

\* ----------------------------------------------------------- flush worker

\* The worker takes a job whose delay has passed.
WorkerPick(j) ==
    /\ jobs[j].state = "delayed"
    /\ jobs' = [jobs EXCEPT ![j] = [@ EXCEPT !.state = "active"]]
    /\ UNCHANGED <<sideVars, flush, taskHash, colSet, boardSet, lock, db, h, started, wire, audit, ttlExpired, clientVars, replay, hist, lockBy, runs>>

\* handleUpsert(payload.task): the row is the job's own task.
WorkerUpsert(j) ==
    /\ jobs[j].state = "active"
    /\ jobs[j].operation = "upsert"
    /\ db' = [db EXCEPT ![jobs[j].task.id] = jobs[j].task]
    /\ jobs' = [jobs EXCEPT ![j] = [NoJob EXCEPT !.state = "completed"]]
    /\ runs' = [runs EXCEPT ![j] = @ + 1]
    /\ UNCHANGED <<sideVars, flush, taskHash, colSet, boardSet, lock, h, started, wire, audit, ttlExpired,
                   clientVars, replay, hist, lockBy>>

\* handleDelete(payload.taskId)
WorkerDelete(j) ==
    /\ jobs[j].state = "active"
    /\ jobs[j].operation = "delete"
    /\ db' = [db EXCEPT ![jobs[j].taskId] = NoTask]
    /\ jobs' = [jobs EXCEPT ![j] = [NoJob EXCEPT !.state = "completed"]]
    /\ runs' = [runs EXCEPT ![j] = @ + 1]
    /\ UNCHANGED <<sideVars, flush, taskHash, colSet, boardSet, lock, h, started, wire, audit, ttlExpired,
                   clientVars, replay, hist, lockBy>>

\* ------------------------------------------------------------ lock expiry

\* PX LOCK_TTL_MS: Redis drops a lock key that was not released in time.
LockExpire(t) ==
    /\ lock[t] # NoOwner
    /\ lock' = [lock EXCEPT ![t] = NoOwner]
    /\ ttlExpired' = ttlExpired \cup {t}
    /\ lockBy' = [lockBy EXCEPT ![t] = 0]
    /\ UNCHANGED <<sideVars, flush, taskHash, colSet, boardSet, db, jobs, h, started, wire, audit, clientVars,
                   replay, hist, runs>>

\* ------------------------------------------------------------------- Next

Next ==
    \/ \E i \in Handlers : RecvTaskCreate(i)
    \/ \E i \in Handlers : RecvTaskUpdate(i)
    \/ \E i \in Handlers : RecvTaskMove(i)
    \/ \E i \in Handlers : RecvTaskDelete(i)
    \/ \E i \in Handlers : RecvInvalid(i)
    \/ \E i \in Handlers : GatSmembers(i)
    \/ \E i \in Handlers : GatHgetall(i)
    \/ \E i \in Handlers : GatSelect(i)
    \/ \E i \in Handlers : GatWarm(i)
    \/ \E i \in Handlers : GtHgetall(i)
    \/ \E i \in Handlers : GtSelect(i)
    \/ \E i \in Handlers : GtCache(i)
    \/ \E i \in Handlers : EnqGet(i)
    \/ \E i \in Handlers : EnqRemove(i)
    \/ \E i \in Handlers : EnqAdd(i)
    \/ \E i \in Handlers : CreateCache(i)
    \/ \E i \in Handlers : CreateEmit(i)
    \/ \E i \in Handlers : UpdateCache(i)
    \/ \E i \in Handlers : UpdateEmit(i)
    \/ \E i \in Handlers : ErrEmit(i)
    \/ \E i \in Handlers : MoveAcquire(i)
    \/ \E i \in Handlers : MoveConflict(i)
    \/ \E i \in Handlers : MoveSrem(i)
    \/ \E i \in Handlers : MoveCache(i)
    \/ \E i \in Handlers : MoveEmit(i)
    \/ \E i \in Handlers : MoveErrEmit(i)
    \/ \E i \in Handlers : MoveRelease(i)
    \/ \E i \in Handlers : DeletePipe(i)
    \/ \E i \in Handlers : DeleteEmit(i)
    \/ \E j \in JobIds : WorkerPick(j)
    \/ \E j \in JobIds : WorkerUpsert(j)
    \/ \E j \in JobIds : WorkerDelete(j)
    \/ \E t \in TaskIds : LockExpire(t)

Spec == Init /\ [][Next]_vars

\* ------------------------------------------------------------ the clients

\* optimisticMove: patch the local copy in place; nothing if the id is unknown.
optimisticMove(tasks, id, columnId, order) ==
    IF Exists(tasks[id])
    THEN [tasks EXCEPT ![id] = [@ EXCEPT !.columnId = columnId, !.order = order]]
    ELSE tasks

\* confirmCreate / confirmUpdate / confirmMove: replace with the server's task.
confirmTask(tasks, task) == [tasks EXCEPT ![task.id] = task]

\* confirmDelete
confirmDelete(tasks, id) == [tasks EXCEPT ![id] = NoTask]

\* rollback(taskId, resolvedState)
rollback(tasks, taskId, resolvedState) == [tasks EXCEPT ![taskId] = resolvedState]

\* The store after the socket.on binding of one server event has run.
ApplyEvent(tasks, m) ==
    IF m.ev \in {"TASK_CREATED", "TASK_UPDATED", "TASK_MOVED"} THEN confirmTask(tasks, m.task)
    ELSE IF m.ev = "TASK_DELETED" THEN confirmDelete(tasks, m.task.id)
    ELSE IF m.ev = "CONFLICT_NOTIFY" THEN rollback(tasks, m.task.id, m.task)
    ELSE tasks

\* useBoard.moveTask on a card the client shows: optimisticMove, then emit
\* TASK_MOVE, which starts handleTaskMove on the server.
ClientMoveTask(i) ==
    \E sock \in SocketsNow, payload \in MovePayloads :
        /\ Exists(local[sock][payload.id])
        /\ local' = [local EXCEPT ![sock] =
                         optimisticMove(@, payload.id, payload.columnId, payload.order)]
        /\ Receive(i, "move", sock, payload, "gat_smembers", "mv_find")

\* The next emitted event reaches socket s (socket.io keeps per-socket order);
\* an event addressed to another socket is skipped.
Deliver(s) ==
    /\ delivered[s] < Len(wire)
    /\ LET m == wire[delivered[s] + 1]
       IN local' = [local EXCEPT ![s] =
                        IF m.to \in {"all", s} THEN ApplyEvent(@, m) ELSE @]
    /\ delivered' = [delivered EXCEPT ![s] = @ + 1]
    /\ UNCHANGED <<sideVars, flush, taskHash, colSet, boardSet, lock, db, jobs, h, started, wire, audit,
                   ttlExpired, replay, hist, lockBy, runs>>

\* Clients dragging cards while the server handles their TASK_MOVE events.
NextClients ==
    \/ \E i \in Handlers : ClientMoveTask(i)
    \/ \E i \in Handlers : GatSmembers(i)
    \/ \E i \in Handlers : GatHgetall(i)
    \/ \E i \in Handlers : GtHgetall(i)
    \/ \E i \in Handlers : EnqGet(i)
    \/ \E i \in Handlers : EnqRemove(i)
    \/ \E i \in Handlers : EnqAdd(i)
    \/ \E i \in Handlers : MoveAcquire(i)
    \/ \E i \in Handlers : MoveConflict(i)
    \/ \E i \in Handlers : MoveSrem(i)
    \/ \E i \in Handlers : MoveCache(i)
    \/ \E i \in Handlers : MoveEmit(i)
    \/ \E i \in Handlers : MoveRelease(i)
    \/ \E j \in JobIds : WorkerPick(j)
    \/ \E j \in JobIds : WorkerUpsert(j)
    \/ \E t \in TaskIds : LockExpire(t)
    \/ \E s \in Sockets : Deliver(s)

SpecClients == Init /\ [][NextClients]_vars

\* --------------------------------------------------------- handleReplayOps

\* Operations per REPLAY_OPS batch, batches per run, largest clientTimestamp.
MaxBatch == 3
MaxReplays == 2
MaxTs == 2

\* The slot the handlers awaited by handleReplayOps run in.
ReplaySlot == 1

\* The queued operations a client replays (QueuedOpSchema), all on one task.
QueuedPayloads ==
    [TASK_CREATE |-> {p \in CreatePayloads : p.id = InitTask1.id /\ p.columnId = "done"},
     TASK_UPDATE |-> {p \in UpdatePayloads : p.id = InitTask1.id /\ p.title # Null
                                              /\ p.description = Null},
     TASK_MOVE   |-> {p \in MovePayloads : p.id = InitTask1.id /\ p.columnId = "done"
                                            /\ p.order = OrderScale},
     TASK_DELETE |-> {p \in DeletePayloads : p.id = InitTask1.id}]

QueuedOps ==
    UNION {{[type |-> ty, payload |-> p, clientTimestamp |-> ts]
              : p \in QueuedPayloads[ty], ts \in 1..MaxTs}
           : ty \in DOMAIN QueuedPayloads}

Batches == UNION {[1..n -> QueuedOps] : n \in 1..MaxBatch}

\* Each operation with its position in the batch as sent.
Tagged(batch) == [k \in 1..Len(batch) |-> [op |-> batch[k], idx |-> k]]

\* Insert x into a sorted sequence after every element that does not compare
\* greater (a.clientTimestamp - b.clientTimestamp <= 0 keeps a before b).
RECURSIVE InsertOp(_, _)
InsertOp(x, sorted) ==
    IF sorted = <<>> THEN <<x>>
    ELSE IF Head(sorted).op.clientTimestamp - x.op.clientTimestamp <= 0
         THEN <<Head(sorted)>> \o InsertOp(x, Tail(sorted))
         ELSE <<x>> \o sorted

\* The batch dispatched as sent, without the sort.
sortByTimestamp_unsorted(ops) == ops

\* [...parsed.data].sort((a, b) => a.clientTimestamp - b.clientTimestamp):
\* Array.prototype.sort is stable.
RECURSIVE sortByTimestamp(_)
sortByTimestamp(ops) ==
    IF ops = <<>> THEN <<>>
    ELSE InsertOp(ops[Len(ops)], sortByTimestamp(SubSeq(ops, 1, Len(ops) - 1)))

\* The handler of a queued operation up to its first await.
StartOf(op, sock) ==
    IF op.type = "TASK_CREATE" THEN
        [IdleH EXCEPT !.pc = "gat_smembers", !.ret = "cr_cache", !.op = "create",
                      !.sock = sock, !.p = op.payload]
    ELSE IF op.type = "TASK_UPDATE" THEN
        [IdleH EXCEPT !.pc = "gt_hgetall", !.op = "update", !.sock = sock,
                      !.p = op.payload]
    ELSE IF op.type = "TASK_MOVE" THEN
        [IdleH EXCEPT !.pc = "gat_smembers", !.ret = "mv_find", !.op = "move",
                      !.sock = sock, !.p = op.payload]
    ELSE
        [IdleH EXCEPT !.pc = "gt_hgetall", !.op = "delete", !.sock = sock,
                      !.p = op.payload]

\* handleReplayOps: safeParse succeeds, the copy of the batch is sorted.  The
\* client sends its operation log; a further REPLAY_OPS is the same log again.
RecvReplayOps ==
    /\ ~replay.active
    /\ replay.n < MaxReplays
    /\ \E batch \in (IF replay.n = 0 THEN Batches ELSE {replay.batch}) :
          replay' = [active |-> TRUE, sock |-> "s1", batch |-> batch,
                     ops |-> sortByTimestamp(Tagged(batch)), n |-> replay.n + 1]
    /\ UNCHANGED <<sideVars, flush, taskHash, colSet, boardSet, lock, db, jobs, h, started, wire, audit,
                   ttlExpired, clientVars, hist, lockBy, runs>>

\* handleReplayOps: safeParse fails.
RecvReplayInvalid ==
    /\ ~replay.active
    /\ replay.n = 0
    /\ replay' = [replay EXCEPT !.n = @ + 1]
    /\ Emit(Msg("ERROR", "s1", NoTask, "VALIDATION_ERROR"))
    /\ UNCHANGED <<sideVars, flush, taskHash, colSet, boardSet, lock, db, jobs, h, started, audit,
                   ttlExpired, clientVars, hist, lockBy, runs>>

\* for (const op of ops) await handleTaskX(socket, io, op.payload): the next
\* operation starts when the awaited handler of the previous one has returned.
ReplayDispatch ==
    /\ replay.active
    /\ replay.ops # <<>>
    /\ h[ReplaySlot].pc \in {"idle", "done"}
    /\ LET q == Head(replay.ops)
       IN /\ h' = [h EXCEPT ![ReplaySlot] = StartOf(q.op, replay.sock)]
          /\ hist' = Append(hist, [n |-> replay.n, idx |-> q.idx, op |-> q.op,
                                   taskHash |-> taskHash, colSet |-> colSet,
                                   boardSet |-> boardSet])
    /\ replay' = [replay EXCEPT !.ops = Tail(@)]
    /\ UNCHANGED <<sideVars, flush, taskHash, colSet, boardSet, lock, db, jobs, started, wire, audit,
                   ttlExpired, clientVars, lockBy, runs>>

\* The loop is over: handleReplayOps returns.
ReplayReturn ==
    /\ replay.active
    /\ replay.ops = <<>>
    /\ h[ReplaySlot].pc \in {"idle", "done"}
    /\ replay' = [replay EXCEPT !.active = FALSE, !.sock = ""]
    /\ UNCHANGED <<sideVars, flush, taskHash, colSet, boardSet, lock, db, jobs, h, started, wire, audit,
                   ttlExpired, clientVars, hist, lockBy, runs>>

\* One client replaying its offline queue, no other client active.
NextReplay ==
    \/ RecvReplayOps
    \/ RecvReplayInvalid
    \/ ReplayDispatch
    \/ ReplayReturn
    \/ \E i \in Handlers : GatSmembers(i)
    \/ \E i \in Handlers : GatHgetall(i)
    \/ \E i \in Handlers : GatSelect(i)
    \/ \E i \in Handlers : GatWarm(i)
    \/ \E i \in Handlers : GtHgetall(i)
    \/ \E i \in Handlers : GtSelect(i)
    \/ \E i \in Handlers : GtCache(i)
    \/ \E i \in Handlers : EnqGet(i)
    \/ \E i \in Handlers : EnqRemove(i)
    \/ \E i \in Handlers : EnqAdd(i)
    \/ \E i \in Handlers : CreateCache(i)
    \/ \E i \in Handlers : CreateEmit(i)
    \/ \E i \in Handlers : UpdateCache(i)
    \/ \E i \in Handlers : UpdateEmit(i)
    \/ \E i \in Handlers : ErrEmit(i)
    \/ \E i \in Handlers : MoveAcquire(i)
    \/ \E i \in Handlers : MoveSrem(i)
    \/ \E i \in Handlers : MoveCache(i)
    \/ \E i \in Handlers : MoveEmit(i)
    \/ \E i \in Handlers : MoveRelease(i)
    \/ \E i \in Handlers : DeletePipe(i)
    \/ \E i \in Handlers : DeleteEmit(i)
    \/ \E j \in JobIds : WorkerPick(j)
    \/ \E j \in JobIds : WorkerUpsert(j)
    \/ \E j \in JobIds : WorkerDelete(j)

SpecReplay == Init /\ [][NextReplay]_vars

\* -------------------------------------------------- the flush queue, timed

\* The job id all calls of SpecFlush share.
FlushJob == <<"task", InitTask1.id>>

\* The payloads of the calls: upserts of two snapshots of the task, and its delete.
FlushPayloads ==
    {UpsertJob([InitTask1 EXCEPT !.version = v]) : v \in 1..2}
        \cup {DeleteJob(InitTask1.id)}

Min(a, b) == IF a <= b THEN a ELSE b

\* A caller enters enqueueDatabaseFlush(payload).
EnqCall(i) ==
    /\ flush.calls < MaxEnqueues
    /\ h[i].pc \in {"idle", "done"}
    /\ \E payload \in FlushPayloads :
          h' = [h EXCEPT ![i] = [IdleH EXCEPT !.pc = "enq_get", !.ret = "done",
                                              !.jb = payload]]
    /\ flush' = [since |-> 0, calls |-> flush.calls + 1,
                 ok |-> flush.ok /\ (flush.calls = 0 \/ flush.since < FLUSH_DELAY)]
    /\ UNCHANGED <<sideVars, taskHash, colSet, boardSet, lock, db, jobs, started, wire, audit,
                   ttlExpired, clientVars, replay, hist, lockBy, runs>>

\* TickMs milliseconds pass: every delayed job is that much older.
Tick ==
    /\ jobs' = [j \in JobIds |->
                  IF jobs[j].state = "delayed"
                  THEN [jobs[j] EXCEPT !.age = Min(@ + TickMs, FLUSH_DELAY)]
                  ELSE jobs[j]]
    /\ flush' = [flush EXCEPT !.since = Min(@ + TickMs, FLUSH_DELAY)]
    /\ UNCHANGED <<sideVars, taskHash, colSet, boardSet, lock, db, h, started, wire, audit,
                   ttlExpired, clientVars, replay, hist, lockBy, runs>>

\* {delay: FLUSH_DELAY}: the worker takes a job no sooner than FLUSH_DELAY
\* after queue.add.
WorkerPickDue(j) ==
    /\ jobs[j].age >= FLUSH_DELAY
    /\ WorkerPick(j)

NextFlush ==
    \/ \E i \in Handlers : EnqCall(i)
    \/ \E i \in Handlers : EnqGet(i)
    \/ \E i \in Handlers : EnqRemove(i)
    \/ \E i \in Handlers : EnqAdd(i)
    \/ Tick
    \/ \E j \in JobIds : WorkerPickDue(j)
    \/ \E j \in JobIds : WorkerUpsert(j)
    \/ \E j \in JobIds : WorkerDelete(j)

SpecFlush == Init /\ [][NextFlush]_vars

\* -------------------------------------------------------- handleRebalance

\* rebalancedOrders(count)[k - 1] = k * 1000
rebalancedOrders(count) == [k \in 1..count |-> k * 1000 * OrderScale]

\* The results `order by "order" asc` may give for a set of rows: rows of
\* equal order come in any order.
SortedByOrder(rows) ==
    {data \in [1..Cardinality(rows) -> rows] :
        /\ \A a, b \in 1..Cardinality(rows) : a # b => data[a] # data[b]
        /\ \A a, b \in 1..Cardinality(rows) : a < b => data[a].order <= data[b].order}

\* select id, order from tasks where column_id = columnId order by order;
\* nothing to do for an empty result.
RebalanceSelect(j) ==
    /\ jobs[j].state = "active"
    /\ jobs[j].operation = "rebalance"
    /\ jobs[j].step = ""
    /\ LET rows == {db[t] : t \in {x \in TaskIds : Exists(db[x])
                                        /\ db[x].columnId = jobs[j].columnId}}
       IN IF rows = {}
          THEN /\ jobs' = [jobs EXCEPT ![j] = [NoJob EXCEPT !.state = "completed"]]
               /\ runs' = [runs EXCEPT ![j] = @ + 1]
          ELSE /\ \E data \in SortedByOrder(rows) :
                    jobs' = [jobs EXCEPT ![j] = [@ EXCEPT !.step = "upsert",
                        !.updates = [k \in 1..Len(data) |->
                            [id |-> data[k].id,
                             order |-> rebalancedOrders(Len(data))[k]]]]]
               /\ runs' = runs
    /\ UNCHANGED <<sideVars, flush, taskHash, colSet, boardSet, lock, db, h, started, wire, audit,
                   ttlExpired, clientVars, replay, hist, lockBy>>

\* The rows after upsert(updates, {onConflict: 'id'}): every update sets
\* column_id and order of its row.
UpsertedRows(j) ==
    [t \in TaskIds |->
        IF \E k \in 1..Len(jobs[j].updates) : jobs[j].updates[k].id = t
        THEN LET u == jobs[j].updates[CHOOSE k \in 1..Len(jobs[j].updates) :
                                          jobs[j].updates[k].id = t]
             IN [db[t] EXCEPT !.id = t, !.columnId = jobs[j].columnId,
                              !.order = u.order]
        ELSE db[t]]

\* The bulk upsert.  An update whose row has been deleted since the select is
\* an insert of id, column_id, order and updated_at alone: the table either
\* takes it with defaults or rejects it, and then the job throws and the
\* queue retries it (attempts, backoff).
RebalanceUpsert(j) ==
    /\ jobs[j].state = "active"
    /\ jobs[j].operation = "rebalance"
    /\ jobs[j].step = "upsert"
    /\ \/ /\ db' = UpsertedRows(j)
          /\ jobs' = [jobs EXCEPT ![j] = [@ EXCEPT !.step = "hset"]]
       \/ /\ \E k \in 1..Len(jobs[j].updates) : ~Exists(db[jobs[j].updates[k].id])
          /\ db' = db
          /\ jobs' = [jobs EXCEPT ![j] = RebalanceJob(jobs[j].columnId)]
    /\ UNCHANGED <<sideVars, flush, taskHash, colSet, boardSet, lock, h, started, wire, audit,
                   ttlExpired, clientVars, replay, hist, lockBy, runs>>

\* pipe.hset(`task:${u.id}`, 'order', String(u.order)) for every update.  On a
\* key that is gone HSET creates a hash with the order alone: it has no id,
\* and every reader takes it for a missing task.
RebalanceHset(j) ==
    /\ jobs[j].state = "active"
    /\ jobs[j].operation = "rebalance"
    /\ jobs[j].step = "hset"
    /\ taskHash' = [t \in TaskIds |->
          IF \E k \in 1..Len(jobs[j].updates) : jobs[j].updates[k].id = t
          THEN [taskHash[t] EXCEPT !.order =
                   jobs[j].updates[CHOOSE k \in 1..Len(jobs[j].updates) :
                                       jobs[j].updates[k].id = t].order]
          ELSE taskHash[t]]
    /\ jobs' = [jobs EXCEPT ![j] = [NoJob EXCEPT !.state = "completed"]]
    /\ runs' = [runs EXCEPT ![j] = @ + 1]
    /\ UNCHANGED <<sideVars, flush, colSet, boardSet, lock, db, h, started, wire, audit,
                   ttlExpired, clientVars, replay, hist, lockBy>>

\* A board of three flushed tasks: t1 and t3 in todo, t2 in done.
RebalanceBoard ==
    {InitTask1,
     MkTask("t3", "todo", "A", "", OrderScale, 1),
     MkTask("t2", "done", "A", "", OrderScale \div 2, 1)}

InitRebalance ==
    /\ taskHash = RowsOf(RebalanceBoard)
    /\ colSet = [c \in Columns |->
                   {x.id : x \in {y \in RebalanceBoard : y.columnId = c}}]
    /\ boardSet = {x.id : x \in RebalanceBoard}
    /\ db = RowsOf(RebalanceBoard)
    /\ local = [s \in Sockets |-> RowsOf(RebalanceBoard)]
    /\ delivered = [s \in Sockets |-> 0]
    /\ ttlExpired = {}
    /\ replay = NoReplay
    /\ hist = <<>>
    /\ lockBy = [t \in TaskIds |-> 0]
    /\ runs = [j \in JobIds |-> 0]
    /\ flush = NoFlush
    /\ calc = NoCall
    /\ pres = NoPresence
    /\ gap = IdleGap
    /\ conn = NoConn
    /\ lock = [t \in TaskIds |-> NoOwner]
    /\ jobs = [j \in JobIds |-> NoJob]
    /\ h = [i \in Handlers |-> IdleH]
    /\ started = 0
    /\ wire = <<>>
    /\ audit = <<>>

\* Moves, edits and deletes on that board, with the worker running every job.
NextRebalance ==
    \/ \E i \in Handlers : RecvTaskUpdate(i)
    \/ \E i \in Handlers : RecvTaskMove(i)
    \/ \E i \in Handlers : RecvTaskDelete(i)
    \/ \E i \in Handlers : GatSmembers(i)
    \/ \E i \in Handlers : GatHgetall(i)
    \/ \E i \in Handlers : GtHgetall(i)
    \/ \E i \in Handlers : GtSelect(i)
    \/ \E i \in Handlers : GtCache(i)
    \/ \E i \in Handlers : EnqGet(i)
    \/ \E i \in Handlers : EnqRemove(i)
    \/ \E i \in Handlers : EnqAdd(i)
    \/ \E i \in Handlers : UpdateCache(i)
    \/ \E i \in Handlers : UpdateEmit(i)
    \/ \E i \in Handlers : ErrEmit(i)
    \/ \E i \in Handlers : MoveAcquire(i)
    \/ \E i \in Handlers : MoveConflict(i)
    \/ \E i \in Handlers : MoveSrem(i)
    \/ \E i \in Handlers : MoveCache(i)
    \/ \E i \in Handlers : MoveEmit(i)
    \/ \E i \in Handlers : MoveErrEmit(i)
    \/ \E i \in Handlers : MoveRelease(i)
    \/ \E i \in Handlers : DeletePipe(i)
    \/ \E i \in Handlers : DeleteEmit(i)
    \/ \E j \in JobIds : WorkerPick(j)
    \/ \E j \in JobIds : WorkerUpsert(j)
    \/ \E j \in JobIds : WorkerDelete(j)
    \/ \E j \in JobIds : RebalanceSelect(j)
    \/ \E j \in JobIds : RebalanceUpsert(j)
    \/ \E j \in JobIds : RebalanceHset(j)

SpecRebalance == InitRebalance /\ [][NextRebalance]_vars

\* ------------------------------------------------- createTask on any board

\* Boards of one flushed task in todo, at the order a TASK_MOVE gave it: 0.5,
\* the first number whose successor half a unit up is not a number, and the
\* first number that absorbs an added 1.
CreateBoards ==
    {{[InitTask1 EXCEPT !.order = o]} :
        o \in {OrderScale \div 2, 2^MantissaBits, 2^(MantissaBits + 1)}}

InitCreate ==
    /\ \E board \in CreateBoards :
          /\ taskHash = RowsOf(board)
          /\ colSet = [c \in Columns |->
                         {x.id : x \in {y \in board : y.columnId = c}}]
          /\ boardSet = {x.id : x \in board}
          /\ db = RowsOf(board)
          /\ local = [s \in Sockets |-> RowsOf(board)]
    /\ delivered = [s \in Sockets |-> 0]
    /\ ttlExpired = {}
    /\ replay = NoReplay
    /\ hist = <<>>
    /\ lockBy = [t \in TaskIds |-> 0]
    /\ runs = [j \in JobIds |-> 0]
    /\ flush = NoFlush
    /\ calc = NoCall
    /\ pres = NoPresence
    /\ gap = IdleGap
    /\ conn = NoConn
    /\ lock = [t \in TaskIds |-> NoOwner]
    /\ jobs = [j \in JobIds |-> NoJob]
    /\ h = [i \in Handlers |-> IdleH]
    /\ started = 0
    /\ wire = <<>>
    /\ audit = <<>>

\* TASK_CREATE events on those boards.
NextCreate ==
    \/ \E i \in Handlers : RecvTaskCreate(i)
    \/ \E i \in Handlers : GatSmembers(i)
    \/ \E i \in Handlers : GatHgetall(i)
    \/ \E i \in Handlers : CreateCache(i)
    \/ \E i \in Handlers : EnqGet(i)
    \/ \E i \in Handlers : EnqRemove(i)
    \/ \E i \in Handlers : EnqAdd(i)
    \/ \E i \in Handlers : CreateEmit(i)
    \/ \E i \in Handlers : ErrEmit(i)
    \/ \E j \in JobIds : WorkerPick(j)
    \/ \E j \in JobIds : WorkerUpsert(j)

SpecCreate == InitCreate /\ [][NextCreate]_vars

\* ------------------------------------------------------------ server crash

\* The server process dies while a handler holds a move lock: every handler
\* in flight is gone, Redis and the queue keep what they have.
Crash ==
    /\ \E i \in Handlers : h[i].acquired /\ h[i].pc # "done"
    /\ \A i \in Handlers : h[i].pc # "crashed"
    /\ h' = [i \in Handlers |->
               IF h[i].pc \in {"idle", "done"} THEN h[i]
               ELSE [DoneH EXCEPT !.pc = "crashed", !.op = h[i].op, !.p = h[i].p,
                                  !.acquired = h[i].acquired]]
    /\ UNCHANGED <<sideVars, flush, taskHash, colSet, boardSet, lock, db, jobs, started, wire, audit,
                   ttlExpired, clientVars, replay, hist, lockBy, runs>>

\* Moves and deletes, lock expiry and the crash.
NextLock ==
    \/ \E i \in Handlers : RecvTaskMove(i)
    \/ \E i \in Handlers : RecvTaskDelete(i)
    \/ \E i \in Handlers : GatSmembers(i)
    \/ \E i \in Handlers : GatHgetall(i)
    \/ \E i \in Handlers : GatSelect(i)
    \/ \E i \in Handlers : GatWarm(i)
    \/ \E i \in Handlers : GtHgetall(i)
    \/ \E i \in Handlers : GtSelect(i)
    \/ \E i \in Handlers : GtCache(i)
    \/ \E i \in Handlers : EnqGet(i)
    \/ \E i \in Handlers : EnqRemove(i)
    \/ \E i \in Handlers : EnqAdd(i)
    \/ \E i \in Handlers : ErrEmit(i)
    \/ \E i \in Handlers : MoveAcquire(i)
    \/ \E i \in Handlers : MoveConflict(i)
    \/ \E i \in Handlers : MoveSrem(i)
    \/ \E i \in Handlers : MoveCache(i)
    \/ \E i \in Handlers : MoveEmit(i)
    \/ \E i \in Handlers : MoveErrEmit(i)
    \/ \E i \in Handlers : MoveRelease(i)
    \/ \E i \in Handlers : DeletePipe(i)
    \/ \E i \in Handlers : DeleteEmit(i)
    \/ \E j \in JobIds : WorkerPick(j)
    \/ \E j \in JobIds : WorkerUpsert(j)
    \/ \E j \in JobIds : WorkerDelete(j)
    \/ \E t \in TaskIds : LockExpire(t)
    \/ Crash

\* PX LOCK_TTL_MS: Redis expires a lock key that stays.
SpecLock == Init /\ [][NextLock]_vars /\ \A t \in TaskIds : WF_vars(LockExpire(t))

\* -------------------------------------------------------------- cold cache

\* Two flushed tasks in durable storage: t1 in todo, t2 in done.
ColdBoard == {InitTask1, MkTask("t2", "done", "A", "", OrderScale \div 2, 1)}

\* What Redis holds of that board: the hashes of `cached` (the others have
\* passed TASK_TTL_SECONDS) and, when `sets` is true, the column sets and the
\* board set, which have no TTL; nothing at all after a restart of Redis.
ColdCaches ==
    {[cached |-> c, sets |-> TRUE] : c \in (SUBSET {x.id : x \in ColdBoard}) \ {{x.id : x \in ColdBoard}}}
    \cup {[cached |-> {}, sets |-> FALSE]}

InitCold ==
    /\ \E cold \in ColdCaches :
          /\ taskHash = [t \in TaskIds |->
                           IF t \in cold.cached THEN RowsOf(ColdBoard)[t] ELSE NoTask]
          /\ colSet = [c \in Columns |->
                         IF cold.sets
                         THEN {x.id : x \in {y \in ColdBoard : y.columnId = c}}
                         ELSE {}]
          /\ boardSet = IF cold.sets THEN {x.id : x \in ColdBoard} ELSE {}
    /\ db = RowsOf(ColdBoard)
    /\ local = [s \in Sockets |-> RowsOf(ColdBoard)]
    /\ delivered = [s \in Sockets |-> 0]
    /\ ttlExpired = {}
    /\ replay = NoReplay
    /\ hist = <<>>
    /\ lockBy = [t \in TaskIds |-> 0]
    /\ runs = [j \in JobIds |-> 0]
    /\ flush = NoFlush
    /\ calc = NoCall
    /\ pres = NoPresence
    /\ gap = IdleGap
    /\ conn = NoConn
    /\ lock = [t \in TaskIds |-> NoOwner]
    /\ jobs = [j \in JobIds |-> NoJob]
    /\ h = [i \in Handlers |-> IdleH]
    /\ started = 0
    /\ wire = <<>>
    /\ audit = <<>>

\* Moves and edits on the cold cache, with the worker running the upserts.
NextCold ==
    \/ \E i \in Handlers : RecvTaskUpdate(i)
    \/ \E i \in Handlers : RecvTaskMove(i)
    \/ \E i \in Handlers : GatSmembers(i)
    \/ \E i \in Handlers : GatHgetall(i)
    \/ \E i \in Handlers : GatSelect(i)
    \/ \E i \in Handlers : GatWarm(i)
    \/ \E i \in Handlers : GtHgetall(i)
    \/ \E i \in Handlers : GtSelect(i)
    \/ \E i \in Handlers : GtCache(i)
    \/ \E i \in Handlers : EnqGet(i)
    \/ \E i \in Handlers : EnqRemove(i)
    \/ \E i \in Handlers : EnqAdd(i)
    \/ \E i \in Handlers : UpdateCache(i)
    \/ \E i \in Handlers : UpdateEmit(i)
    \/ \E i \in Handlers : ErrEmit(i)
    \/ \E i \in Handlers : MoveAcquire(i)
    \/ \E i \in Handlers : MoveConflict(i)
    \/ \E i \in Handlers : MoveSrem(i)
    \/ \E i \in Handlers : MoveCache(i)
    \/ \E i \in Handlers : MoveEmit(i)
    \/ \E i \in Handlers : MoveRelease(i)
    \/ \E j \in JobIds : WorkerPick(j)
    \/ \E j \in JobIds : WorkerUpsert(j)

SpecCold == InitCold /\ [][NextCold]_vars

\* ---------------------------------------------------------- function calls

\* Every variable of the server but `calc`, `pres`, `gap` and `conn`, as in
\* Init.
AtRest ==
    /\ taskHash = RowsOf({InitTask1})
    /\ colSet = [c \in Columns |-> IF c = "todo" THEN {"t1"} ELSE {}]
    /\ boardSet = {"t1"}
    /\ db = RowsOf({InitTask1})
    /\ local = [s \in Sockets |-> RowsOf({InitTask1})]
    /\ delivered = [s \in Sockets |-> 0]
    /\ ttlExpired = {}
    /\ replay = NoReplay
    /\ hist = <<>>
    /\ lockBy = [t \in TaskIds |-> 0]
    /\ runs = [j \in JobIds |-> 0]
    /\ flush = NoFlush
    /\ lock = [t \in TaskIds |-> NoOwner]
    /\ jobs = [j \in JobIds |-> NoJob]
    /\ h = [i \in Handlers |-> IdleH]
    /\ started = 0
    /\ wire = <<>>
    /\ audit = <<>>

AtRestUnchanged ==
    UNCHANGED <<taskHash, colSet, boardSet, lock, db, jobs, h, started, wire, audit,
                ttlExpired, clientVars, replay, hist, lockBy, runs, flush>>

\* prev, next: number | null, the numbers being the whole orders from
\* -MaxOrder to MaxOrder.
OrderArgs == {<<>>} \cup {<<k * OrderScale>> : k \in (0 - MaxOrder)..MaxOrder}

OrderBetweenCalls ==
    {[NoCall EXCEPT !.fn = "orderBetween", !.args = <<prev, next>>] :
        prev \in OrderArgs, next \in OrderArgs}

\* orderBetween(prev, next): throws the RangeError or returns the midpoint.
CallOrderBetween ==
    /\ calc.fn = "orderBetween"
    /\ ~calc.done
    /\ calc' = IF InvalidRange(calc.args[1], calc.args[2])
               THEN [calc EXCEPT !.done = TRUE, !.thrown = TRUE]
               ELSE [calc EXCEPT !.done = TRUE,
                                 !.value = orderBetween(calc.args[1], calc.args[2])]
    /\ UNCHANGED <<pres, gap, conn>>
    /\ AtRestUnchanged

\* A Task with the fields mergeMovAndEdit copies unchanged (`...current`).
MergeTasks ==
    {[id |-> "t1", columnId |-> c, title |-> "A", description |-> "c",
      order |-> o, version |-> v, createdAt |-> "created", updatedAt |-> "updated",
      creatorName |-> "ann", creatorColor |-> "#3B82F6"] :
        c \in PayloadColumns, o \in PayloadOrders, v \in 1..MaxOps}

\* move: MoveFields | null
MoveArgs == {<<>>} \cup {<<[columnId |-> c, order |-> o]>> :
                            c \in PayloadColumns, o \in PayloadOrders}

\* edit: EditFields | null; a description may be the empty string.
EditArgs == {<<>>} \cup {<<[title |-> t, description |-> d]>> :
                            t \in PayloadTitles, d \in PayloadDescriptions \cup {""}}

\* A merge that drops the edit.
mergeMovAndEdit_moveOnly(current, move, edit) ==
    [current EXCEPT !.columnId = IF move = <<>> THEN @ ELSE move[1].columnId,
                    !.order = IF move = <<>> THEN @ ELSE move[1].order,
                    !.version = @ + 1,
                    !.updatedAt = "now"]

\* { ...current, columnId: move?.columnId ?? current.columnId, ...,
\*   version: current.version + 1, updatedAt: now }
mergeMovAndEdit(current, move, edit) ==
    [current EXCEPT !.columnId = IF move = <<>> THEN @ ELSE move[1].columnId,
                    !.order = IF move = <<>> THEN @ ELSE move[1].order,
                    !.title = IF edit = <<>> THEN @ ELSE edit[1].title,
                    !.description = IF edit = <<>> THEN @ ELSE edit[1].description,
                    !.version = @ + 1,
                    !.updatedAt = "now"]

MergeCalls ==
    {[NoCall EXCEPT !.fn = "mergeMovAndEdit", !.args = <<current, move, edit>>] :
        current \in MergeTasks, move \in MoveArgs, edit \in EditArgs}

\* mergeMovAndEdit(current, move, edit) returns the merged task.
CallMerge ==
    /\ calc.fn = "mergeMovAndEdit"
    /\ ~calc.done
    /\ calc' = [calc EXCEPT !.done = TRUE,
                            !.value = mergeMovAndEdit(calc.args[1], calc.args[2],
                                                      calc.args[3])]
    /\ UNCHANGED <<pres, gap, conn>>
    /\ AtRestUnchanged

\* The pipeline results of getAllTasks: the cached tasks in the order SMEMBERS
\* gave their ids, which is any order.
TaskLists ==
    {tasks \in [1..Cardinality(TaskIds) ->
                  {MkTask(id, c, "A", "", k * (OrderScale \div 2), 1) :
                      id \in TaskIds, c \in PayloadColumns, k \in 1..MaxOrder}] :
        \A a, b \in 1..Cardinality(TaskIds) : a # b => tasks[a].id # tasks[b].id}

\* Insertion of a task into a list sorted by order, after the tasks of the
\* same order.
RECURSIVE InsertTask(_, _)
InsertTask(x, sorted) ==
    IF sorted = <<>> THEN <<x>>
    ELSE IF Head(sorted).order <= x.order
         THEN <<Head(sorted)>> \o InsertTask(x, Tail(sorted))
         ELSE <<x>> \o sorted

\* tasks.sort((a, b) => a.order - b.order): Array.prototype.sort is stable.
RECURSIVE sortByOrder(_)
sortByOrder(tasks) ==
    IF tasks = <<>> THEN <<>>
    ELSE InsertTask(tasks[Len(tasks)], sortByOrder(SubSeq(tasks, 1, Len(tasks) - 1)))

SortCalls ==
    {[NoCall EXCEPT !.fn = "getAllTasks", !.args = <<tasks>>] : tasks \in TaskLists}

\* getAllTasks on a warm cache returns the sorted pipeline results.
CallSort ==
    /\ calc.fn = "getAllTasks"
    /\ ~calc.done
    /\ calc' = [calc EXCEPT !.done = TRUE, !.value = sortByOrder(calc.args[1])]
    /\ UNCHANGED <<pres, gap, conn>>
    /\ AtRestUnchanged

InitCalls ==
    /\ AtRest
    /\ calc \in OrderBetweenCalls \cup MergeCalls \cup SortCalls
    /\ pres = NoPresence
    /\ gap = IdleGap
    /\ conn = NoConn

NextCalls ==
    \/ CallOrderBetween
    \/ CallMerge
    \/ CallSort

SpecCalls == InitCalls /\ [][NextCalls]_vars

\* ---------------------------------------------------------------- presence

\* socket.id: each connection has an id of its own.
PresenceIds == {"s1", "s2", "s3"}

\* addPresence(socketId): HSET + EXPIRE + SADD presence:active in one
\* pipeline, once per connection.
addPresence(socketId) ==
    /\ socketId \notin pres.joined
    /\ pres' = [hash |-> pres.hash \cup {socketId},
                active |-> pres.active \cup {socketId},
                joined |-> pres.joined \cup {socketId}]
    /\ UNCHANGED <<calc, gap, conn>>
    /\ AtRestUnchanged

\* removePresence(socketId): DEL + SREM in one pipeline, on disconnect.
removePresence(socketId) ==
    /\ socketId \in pres.hash \cup pres.active
    /\ pres' = [pres EXCEPT !.hash = @ \ {socketId}, !.active = @ \ {socketId}]
    /\ UNCHANGED <<calc, gap, conn>>
    /\ AtRestUnchanged

\* PRESENCE_TTL has passed: Redis drops the hash, the set keeps the id.
PresenceExpire(socketId) ==
    /\ socketId \in pres.hash
    /\ pres' = [pres EXCEPT !.hash = @ \ {socketId}]
    /\ UNCHANGED <<calc, gap, conn>>
    /\ AtRestUnchanged

\* getAllPresences: SMEMBERS presence:active; [] for an empty set.
GapSmembers ==
    /\ gap.pc = "idle"
    /\ gap' = [pc |-> IF pres.active = {} THEN "returned" ELSE "hgetall",
               socketIds |-> pres.active, presences |-> {}, staleIds |-> {}]
    /\ UNCHANGED <<calc, pres, conn>>
    /\ AtRestUnchanged

\* The ids whose hash had no userId are never marked stale.
GapHgetall_keepStale ==
    /\ gap.pc = "hgetall"
    /\ gap' = [gap EXCEPT !.pc = "returned",
                          !.presences = gap.socketIds \cap pres.hash]
    /\ UNCHANGED <<calc, pres, conn>>
    /\ AtRestUnchanged

\* getAllPresences: the pipeline of HGETALLs; a hash with a userId is a
\* presence, the id of any other is stale.
GapHgetall ==
    /\ gap.pc = "hgetall"
    /\ gap' = [gap EXCEPT !.pc = IF gap.socketIds \subseteq pres.hash
                                 THEN "returned" ELSE "srem",
                          !.presences = gap.socketIds \cap pres.hash,
                          !.staleIds = gap.socketIds \ pres.hash]
    /\ UNCHANGED <<calc, pres, conn>>
    /\ AtRestUnchanged

\* getAllPresences: SREM presence:active ...staleIds, then return presences.
GapSrem ==
    /\ gap.pc = "srem"
    /\ pres' = [pres EXCEPT !.active = @ \ gap.staleIds]
    /\ gap' = [gap EXCEPT !.pc = "returned"]
    /\ UNCHANGED <<calc, conn>>
    /\ AtRestUnchanged

\* The caller has the list; the next call may start.
GapReturn ==
    /\ gap.pc = "returned"
    /\ gap' = IdleGap
    /\ UNCHANGED <<calc, pres, conn>>
    /\ AtRestUnchanged

\* cleanAllPresences at start-up deletes only presence:active: the hashes of
\* the connections of the previous run are still there.
InitPresence ==
    /\ AtRest
    /\ calc = NoCall
    /\ \E left \in SUBSET PresenceIds :
          pres = [hash |-> left, active |-> {}, joined |-> left]
    /\ gap = IdleGap
    /\ conn = NoConn

NextPresence ==
    \/ \E socketId \in PresenceIds : addPresence(socketId)
    \/ \E socketId \in PresenceIds : removePresence(socketId)
    \/ \E socketId \in PresenceIds : PresenceExpire(socketId)
    \/ GapSmembers
    \/ GapHgetall
    \/ GapSrem
    \/ GapReturn

SpecPresence == InitPresence /\ [][NextPresence]_vars

\* ------------------------------------------------------------ connections

\* The socket has disconnected and none of its handlers is running.
Finished(c) ==
    /\ conn[c].up = "closed"
    /\ conn[c].oc.pc = "done"
    /\ conn[c].od.pc = "done"
    /\ conn[c].pu.pc \in {"idle", "done"}

\* io.on('connection'): registerSocketHandlers calls `void onConnect(...)`.
Connect(c) ==
    /\ conn[c].up = "new"
    /\ conn' = [conn EXCEPT ![c].up = "open", ![c].oc.pc = "colour"]
    /\ UNCHANGED <<calc, pres, gap>>
    /\ AtRestUnchanged

\* assignPresenceColour: SMEMBERS presence:active; the first colour for an
\* empty set.
OcSmembers(c) ==
    /\ conn[c].oc.pc = "colour"
    /\ conn' = [conn EXCEPT ![c].oc.pc = IF pres.active = {} THEN "pipeline" ELSE "hget"]
    /\ UNCHANGED <<calc, pres, gap>>
    /\ AtRestUnchanged

\* assignPresenceColour: the pipeline of HGET color.
OcHget(c) ==
    /\ conn[c].oc.pc = "hget"
    /\ conn' = [conn EXCEPT ![c].oc.pc = "pipeline"]
    /\ UNCHANGED <<calc, pres, gap>>
    /\ AtRestUnchanged

\* addPresence: HSET + EXPIRE + SADD presence:active in one pipeline; then
\* onConnect calls getAllPresences.
OcPipeline(c) ==
    /\ conn[c].oc.pc = "pipeline"
    /\ pres' = [hash |-> pres.hash \cup {c},
                active |-> pres.active \cup {c},
                joined |-> pres.joined \cup {c}]
    /\ conn' = [conn EXCEPT ![c].oc.pc = "gap_smembers"]
    /\ UNCHANGED <<calc, gap>>
    /\ AtRestUnchanged

\* socket.on('disconnect'): `void onDisconnect(...)`.
Disconnect(c) ==
    /\ conn[c].up = "open"
    /\ conn' = [conn EXCEPT ![c].up = "closed", ![c].od.pc = "remove"]
    /\ UNCHANGED <<calc, pres, gap>>
    /\ AtRestUnchanged

\* removePresence: DEL + SREM in one pipeline; then onDisconnect calls
\* getAllPresences.
OdRemove(c) ==
    /\ conn[c].od.pc = "remove"
    /\ pres' = [pres EXCEPT !.hash = @ \ {c}, !.active = @ \ {c}]
    /\ conn' = [conn EXCEPT ![c].od.pc = "gap_smembers"]
    /\ UNCHANGED <<calc, gap>>
    /\ AtRestUnchanged

\* socket.on('PRESENCE_UPDATE'): `void handlePresenceUpdate(...)`, once per
\* connection of an editor.
PuRecv(c) ==
    /\ c \in Editors
    /\ conn[c].up = "open"
    /\ conn[c].pu.pc = "idle"
    /\ conn' = [conn EXCEPT ![c].pu.pc = "get"]
    /\ UNCHANGED <<calc, pres, gap>>
    /\ AtRestUnchanged

\* updatePresenceStatus: getPresence; null without a userId.
PuGet(c) ==
    /\ conn[c].pu.pc = "get"
    /\ conn' = [conn EXCEPT ![c].pu.pc = IF c \in pres.hash THEN "write" ELSE "gap_smembers"]
    /\ UNCHANGED <<calc, pres, gap>>
    /\ AtRestUnchanged

\* updatePresenceStatus: HSET or HDEL editingTaskId, then EXPIRE. Neither
\* gives a hash a userId nor touches presence:active.
PuWrite(c) ==
    /\ conn[c].pu.pc = "write"
    /\ conn' = [conn EXCEPT ![c].pu.pc = "gap_smembers"]
    /\ UNCHANGED <<calc, pres, gap>>
    /\ AtRestUnchanged

\* getAllPresences, called by the handler f of socket c: SMEMBERS, the
\* pipeline of HGETALLs, SREM of the stale ids. A local that is not read
\* again is cleared.
ConnGap(c, f) ==
    LET g == conn[c][f]
    IN /\ g.pc \in {"gap_smembers", "gap_hgetall", "gap_srem"}
       /\ conn' = [conn EXCEPT ![c][f] =
                      CASE g.pc = "gap_smembers" ->
                              [g EXCEPT !.pc = IF pres.active = {} THEN "emit" ELSE "gap_hgetall",
                                        !.socketIds = pres.active]
                        [] g.pc = "gap_hgetall" ->
                              [g EXCEPT !.pc = IF g.socketIds \subseteq pres.hash
                                               THEN "emit" ELSE "gap_srem",
                                        !.socketIds = {},
                                        !.presences = g.socketIds \cap pres.hash,
                                        !.staleIds = g.socketIds \ pres.hash]
                        [] OTHER -> [g EXCEPT !.pc = "emit", !.staleIds = {}]]
       /\ pres' = IF g.pc = "gap_srem"
                  THEN [pres EXCEPT !.active = @ \ g.staleIds]
                  ELSE pres
       /\ UNCHANGED <<calc, gap>>
       /\ AtRestUnchanged

\* emit('PRESENCE_STATE', presences): socket.broadcast.emit in onConnect,
\* io.emit in onDisconnect and handlePresenceUpdate.
ConnEmit(c, f) ==
    LET g == conn[c][f]
    IN /\ g.pc = "emit"
       /\ conn' = [x \in ConnIds |->
                      IF x = c
                      THEN [conn[c] EXCEPT ![f] = DoneProc]
                      ELSE [conn[x] EXCEPT !.late = @ \/ (x \in g.presences /\ Finished(x))]]
       /\ UNCHANGED <<calc, pres, gap>>
       /\ AtRestUnchanged

\* cleanAllPresences has run and no socket has connected. The connections
\* are shorter than PRESENCE_TTL (two hours): no hash expires.
InitConnect ==
    /\ AtRest
    /\ calc = NoCall
    /\ pres = NoPresence
    /\ gap = IdleGap
    /\ conn = NoConn

NextConnect ==
    \/ \E c \in ConnIds : Connect(c)
    \/ \E c \in ConnIds : OcSmembers(c)
    \/ \E c \in ConnIds : OcHget(c)
    \/ \E c \in ConnIds : OcPipeline(c)
    \/ \E c \in ConnIds : Disconnect(c)
    \/ \E c \in ConnIds : OdRemove(c)
    \/ \E c \in ConnIds : PuRecv(c)
    \/ \E c \in ConnIds : PuGet(c)
    \/ \E c \in ConnIds : PuWrite(c)
    \/ \E c \in ConnIds, f \in {"oc", "od", "pu"} : ConnGap(c, f)
    \/ \E c \in ConnIds, f \in {"oc", "od", "pu"} : ConnEmit(c, f)

SpecConnect == InitConnect /\ [][NextConnect]_vars

\* ------------------------------------------------------------- properties

\* No event handler is between its first await and its return.
Quiet == \A i \in Handlers : h[i].pc \in {"idle", "done"}

\* Handler i is a handleTaskMove on task t between its successful
\* acquireMoveLock and its releaseMoveLock.
InCritical(i, t) == h[i].op = "move" /\ h[i].acquired /\ h[i].p.id = t

\* The positions in the emission log of the events of kind ev about task t.
WireEvents(ev, t) == {k \in 1..Len(wire) : wire[k].ev = ev /\ wire[k].task.id = t}

Broadcasts == {"TASK_CREATED", "TASK_UPDATED", "TASK_MOVED"}

C2_ResolvedStateIsWinners ==
    \A t \in TaskIds :
        (Len(wire) = 2 /\ WireEvents("TASK_MOVED", t) # {}
                       /\ WireEvents("CONFLICT_NOTIFY", t) # {}) =>
            \A j \in WireEvents("TASK_MOVED", t), k \in WireEvents("CONFLICT_NOTIFY", t) :
                wire[k].task = wire[j].task

\* C3: after one TASK_MOVE and one TASK_UPDATE on the same task, however their
\* handlers interleaved, the cached task has the move's columnId and order and
\* the update's title and description, and no CONFLICT_NOTIFY was sent.
C3_MoveAndEditBothApplied ==
    \A t \in TaskIds :
        (Quiet /\ started = 2 /\ WireEvents("TASK_MOVED", t) # {}
                               /\ WireEvents("TASK_UPDATED", t) # {}) =>
            \A j \in WireEvents("TASK_MOVED", t), k \in WireEvents("TASK_UPDATED", t) :
                /\ taskHash[t].columnId = wire[j].task.columnId
                /\ taskHash[t].order = wire[j].task.order
                /\ taskHash[t].title = wire[k].task.title
                /\ taskHash[t].description = wire[k].task.description
                /\ WireEvents("CONFLICT_NOTIFY", t) = {}

\* C4: after one TASK_MOVE and one TASK_UPDATE on a task at version N, the
\* cached version is N + 2 for every interleaving of the two handlers.
C4_MoveAndEditBumpTwice ==
    (Quiet /\ started = 2 /\ WireEvents("TASK_MOVED", InitTask1.id) # {}
                           /\ WireEvents("TASK_UPDATED", InitTask1.id) # {}) =>
        taskHash[InitTask1.id].version = InitTask1.version + 2

\* C5: every write of createTask, updateTask and moveTask leaves the cached
\* version of its task strictly greater than it was just before the write
\* (0 standing for no cached task), TASK_CREATE of an existing id included.
C5_VersionGrows ==
    [][\A i \in Handlers :
          (h[i].pc \in {"cr_cache", "up_cache", "mv_cache"} /\ h'[i].pc # h[i].pc) =>
              taskHash'[h[i].p.id].version > taskHash[h[i].p.id].version]_vars

\* C6: no two cached tasks of the same column have equal order.
C6_DistinctOrders ==
    \A a, b \in TaskIds :
        (a # b /\ Exists(taskHash[a]) /\ Exists(taskHash[b])
               /\ taskHash[a].columnId = taskHash[b].columnId) =>
            taskHash[a].order # taskHash[b].order

\* C7: every id of board:tasks is in exactly one column set, in every state,
\* the states in the middle of a cross-column move included.
C7_ExactlyOneColumnSet ==
    \A id \in boardSet : Cardinality({c \in Columns : id \in colSet[c]}) = 1

\* C8: whenever no handler is in progress, every column set holds exactly the
\* ids whose cached record has that columnId.
C8_ColumnSetsMatchRecords ==
    Quiet =>
        \A c \in Columns :
            colSet[c] = {t \in TaskIds : Exists(taskHash[t]) /\ taskHash[t].columnId = c}

\* C9: for each task id the versions carried by the TASK_CREATED, TASK_UPDATED
\* and TASK_MOVED broadcasts never decrease in emission order.
C9_BroadcastVersionsNonDecreasing ==
    \A j, k \in 1..Len(wire) :
        (j < k /\ wire[j].ev \in Broadcasts /\ wire[k].ev \in Broadcasts
               /\ wire[j].task.id = wire[k].task.id) =>
            wire[j].task.version <= wire[k].task.version

\* C10: after a move+move conflict on a task, once the winner's TASK_MOVED and
\* the loser's CONFLICT_NOTIFY have both reached the loser's client, in either
\* order, and nothing else happened to the task, the loser's local copy equals
\* the cached task.
C10_LoserConverges ==
    \A s \in Sockets, t \in TaskIds :
        (/\ Quiet /\ started = 2
         /\ WireEvents("TASK_MOVED", t) # {}
         /\ \E k \in WireEvents("CONFLICT_NOTIFY", t) : wire[k].to = s
         /\ delivered[s] = Len(wire)) =>
            local[s][t] = taskHash[t]

\* The cache as it was when handleReplayOps dispatched an operation.
CacheAt(e) == <<e.taskHash, e.colSet, e.boardSet>>

\* The last two operations handleReplayOps ran are TASK_DELETE of the same id
\* and the second has returned.
DeletedTwice ==
    /\ Len(hist) >= 2
    /\ hist[Len(hist)].op.type = "TASK_DELETE"
    /\ hist[Len(hist) - 1].op.type = "TASK_DELETE"
    /\ hist[Len(hist)].op.payload.id = hist[Len(hist) - 1].op.payload.id
    /\ h[ReplaySlot].pc = "done"

\* C11: deleteTask(id) called twice in sequence returns ok both times (each
\* call is followed by TASK_DELETED, none by ERROR) and the cache after the
\* second call (record, column sets, board set) equals the cache after the
\* first call.
C11_DeleteIdempotent ==
    DeletedTwice =>
        /\ <<taskHash, colSet, boardSet>> = CacheAt(hist[Len(hist)])
        /\ Len(wire) >= 2
        /\ wire[Len(wire)].ev = "TASK_DELETED"
        /\ wire[Len(wire) - 1].ev = "TASK_DELETED"

\* Handler i runs its releaseMoveLock in this step.
Releases(i) == h[i].pc = "mv_release" /\ h'[i].pc # "mv_release"

\* C12: releaseMoveLock removes the lock of a task only if the releasing
\* handler is the one that holds it: when the key now in place was set by
\* another handler (after the releaser's own key expired), the release leaves
\* it in place, also when both handlers run in the same server process.
C12_LateReleaseKeepsSuccessorLock ==
    [][\A i \in Handlers :
          (Releases(i) /\ lockBy[h[i].p.id] \notin {0, i}) =>
              lock'[h[i].p.id] = lock[h[i].p.id]]_vars

\* Handler i rejects its payload in this step: it returns without an await.
Rejects(i) == h[i].pc = "idle" /\ h'[i].pc = "done"

\* C13: a payload that fails schema validation results in exactly one
\* ERROR{VALIDATION_ERROR} emitted to the calling socket only, and in no
\* broadcast, no cache change, no lock acquisition and no flush job.
C13_InvalidPayloadRepliesPrivately ==
    [][\A i \in Handlers :
          Rejects(i) =>
              /\ \E sock \in Sockets :
                     wire' = Append(wire, Msg("ERROR", sock, NoTask, "VALIDATION_ERROR"))
              /\ CacheUnchanged
              /\ lock' = lock
              /\ jobs' = jobs
              /\ db' = db]_vars

\* C13 witness: a VALIDATION_ERROR has been sent to one socket.
C13_Witness ==
    \E k \in 1..Len(wire) : wire[k].code = "VALIDATION_ERROR" /\ wire[k].to \in Sockets

\* Task id is in neither the cache nor durable storage.
Absent(id) == ~Exists(taskHash[id]) /\ ~Exists(db[id])

\* Handler i is a TASK_UPDATE or TASK_MOVE that has not read its task from the
\* cache or from durable storage, and takes a step.
StepOnAbsent(i) ==
    /\ h[i].op \in {"update", "move"}
    /\ h'[i] # h[i]
    /\ Absent(h[i].p.id)
    /\ h[i].cur = NoTask /\ h[i].upd = NoTask /\ ~h[i].acquired
    /\ \A t \in h[i].all : t.id # h[i].p.id

\* What both readings of C14 share: no lock, no flush job, no broadcast, and
\* the handler ends with NOT_FOUND sent to its own socket.
NotFoundReply(i) ==
    /\ lock' = lock
    /\ jobs' = jobs
    /\ wire' # wire =>
           wire' = Append(wire, Msg("ERROR", h[i].sock, NoTask, "NOT_FOUND"))
    /\ h'[i].pc = "done" => wire' # wire

FlushIdle == Quiet /\ jobs[FlushJob].state \notin {"delayed", "active"}

\* The worker takes the job of FlushJob in this step.
FlushPicked == jobs[FlushJob].state = "delayed" /\ jobs'[FlushJob].state = "active"

\* C15: when every enqueue for one task id comes less than FLUSH_DELAY after
\* the one before, at most one job of that id executes, exactly one has
\* executed once the queue is idle, and the worker takes the job no sooner
\* than FLUSH_DELAY after the last enqueue.
C15_FlushDebounce ==
    [][flush'.ok =>
          /\ runs'[FlushJob] <= 1
          /\ FlushPicked => flush.since >= FLUSH_DELAY
          /\ (flush'.calls >= 1 /\ FlushIdle') => runs'[FlushJob] = 1]_vars

\* The worker executes the upsert job of task t in this step.
UpsertRuns(t) ==
    /\ jobs[<<"task", t>>].state = "active"
    /\ jobs[<<"task", t>>].operation = "upsert"
    /\ jobs'[<<"task", t>>].state = "completed"

\* C16: the row an upsert job writes is the task the cache holds for that id
\* when the job executes.
C16_UpsertWritesCacheState ==
    [][\A t \in TaskIds : UpsertRuns(t) => db'[t] = taskHash[t]]_vars

\* No handler is running and no flush job waits or runs.
Settled ==
    /\ Quiet
    /\ \A j \in JobIds : jobs[j].state \notin {"delayed", "active"}

\* C17: once the handlers have finished and every flush job has executed,
\* every cached task has an equal row in durable storage and a task that is
\* not in the cache has no row.
C17_StorageAgreesWithCache ==
    Settled => \A t \in TaskIds : db[t] = taskHash[t]

\* The operations dispatched so far went out, batch by batch, in ascending
\* clientTimestamp order, equal timestamps in their order in the batch.
DispatchedInOrder(hs) ==
    \A a, b \in 1..Len(hs) :
        (a < b /\ hs[a].n = hs[b].n) =>
            \/ hs[a].op.clientTimestamp < hs[b].op.clientTimestamp
            \/ /\ hs[a].op.clientTimestamp = hs[b].op.clientTimestamp
               /\ hs[a].idx < hs[b].idx

\* C18: handleReplayOps dispatches in ascending clientTimestamp order, ties in
\* batch order, and starts an operation only when the handler of the one
\* before has returned: its message is on the wire and no lock is held.
C18_ReplayInOrderOneAtATime ==
    [][hist' # hist =>
          /\ DispatchedInOrder(hist')
          /\ h[ReplaySlot].pc \in {"idle", "done"}
          /\ \A t \in TaskIds : lock[t] = NoOwner
          /\ Len(wire) >= Len(hist)]_vars

\* C18 witness: a batch went out in another order than it was sent, and an
\* operation was dispatched after a TASK_MOVE of the same batch.
C18_Witness ==
    /\ \E a, b \in 1..Len(hist) :
          a < b /\ hist[a].n = hist[b].n /\ hist[a].idx > hist[b].idx
    /\ \E a, b \in 1..Len(hist) :
          a < b /\ hist[a].n = hist[b].n /\ hist[a].op.type = "TASK_MOVE"

\* The steps of a handler that read or write the cache or the lock table.
CacheSteps ==
    {"gat_smembers", "gat_hgetall", "gat_warm", "gt_hgetall", "gt_cache",
     "cr_cache", "up_cache", "mv_acquire", "mv_srem", "mv_cache", "mv_release",
     "del_pipe"}

\* Handler j takes a step on the cache or the lock table.
TouchesCache(j) == h'[j] # h[j] /\ h[j].pc \in CacheSteps

\* Handler i was started before handler j by an event of the same
\* connection and has not returned.
EarlierUnfinished(i, j) ==
    /\ i < j
    /\ h[i].pc \notin {"idle", "done"}
    /\ h[i].sock = h[j].sock

\* C19: the handler of a later event of a connection takes no step on the
\* cache or the lock table while the handler of an earlier event of that
\* connection has not returned.
C19_ConnectionEventsInOrder ==
    [][\A i, j \in Handlers :
          TouchesCache(j) => ~EarlierUnfinished(i, j)]_vars

\* The same batch has been replayed twice and both handleReplayOps have returned.
ReplayedTwice ==
    /\ replay.n = 2
    /\ ~replay.active
    /\ replay.batch # <<>>
    /\ Quiet
    /\ \E k \in 1..Len(hist) : hist[k].n = 2

\* The cache as the first replay left it: the cache the second replay found
\* when it dispatched its first operation.
CacheAfterFirstReplay ==
    LET k == CHOOSE x \in 1..Len(hist) :
                 hist[x].n = 2 /\ \A y \in 1..(x - 1) : hist[y].n = 1
    IN CacheAt(hist[k])

\* C20: replaying a batch a second time leaves the cache, versions included,
\* as the first replay left it.
C20_ReplayTwiceSameState ==
    ReplayedTwice => <<taskHash, colSet, boardSet>> = CacheAfterFirstReplay

\* Handler i is a handleTaskMove whose acquireMoveLock failed and that returns
\* in this step.
LosesMove(i) ==
    /\ h[i].op = "move"
    /\ h[i].pc = "mv_conflict"
    /\ ~h[i].acquired
    /\ h'[i].pc = "done"

\* C21: a CONFLICT_NOTIFY is emitted only by a handleTaskMove that lost the
\* lock, and only to the socket that sent that TASK_MOVE: never as a broadcast
\* and never to another socket.
C21_ConflictNotifyOnlyToLoser ==
    [][(Len(wire') > Len(wire) /\ wire'[Len(wire')].ev = "CONFLICT_NOTIFY") =>
          \E i \in Handlers :
              /\ LosesMove(i)
              /\ wire' = Append(wire, Msg("CONFLICT_NOTIFY", h[i].sock, h[i].cur, ""))
              /\ h[i].sock \in Sockets]_vars

\* C21 witness: the loser on socket s2 was notified after socket s1 had taken
\* the lock, and the winner's TASK_MOVED was broadcast.
C21_Witness ==
    /\ \E k \in 1..Len(wire) : wire[k].ev = "CONFLICT_NOTIFY" /\ wire[k].to = "s2"
    /\ \E k \in 1..Len(wire) : wire[k].ev = "TASK_MOVED" /\ wire[k].to = "all"

\* The rebalance job of column c finishes in this step.
RebalanceRuns(c) ==
    /\ jobs[<<"rebalance", c>>].state = "active"
    /\ jobs'[<<"rebalance", c>>].state = "completed"

\* The ids of the tasks the cache `th` holds with columnId c.
CachedIn(th, c) == {t \in TaskIds : Exists(th[t]) /\ th[t].columnId = c}

\* C22: when the rebalance job of column c has executed, the n tasks cached in
\* c have the orders 1000, 2000, ..., n * 1000, in the relative order their
\* cached orders had before.
C22_RebalanceSpreadsCachedColumn ==
    [][\A c \in Columns :
          RebalanceRuns(c) =>
              LET ids == CachedIn(taskHash', c)
              IN /\ {taskHash'[t].order : t \in ids}
                        = {k * 1000 * OrderScale : k \in 1..Cardinality(ids)}
                 /\ \A a, b \in ids :
                        a # b => taskHash'[a].order # taskHash'[b].order
                 /\ \A a, b \in ids :
                        taskHash[a].order < taskHash[b].order =>
                            taskHash'[a].order < taskHash'[b].order]_vars

\* Handler i is in moveTask and gets the board it reads back after its write.
ChecksNeighbours(i) ==
    /\ h[i].pc = "gat_hgetall"
    /\ h[i].ret = "mv_check"
    /\ h'[i].pc \in {"enq_get", "mv_emit"}

\* Another task of the moved task's column, among the hashes the read finds,
\* lies closer than the threshold to the moved task: the nearest task on
\* that side, its immediate neighbour, is then at least as close.
CloseNeighbour(i) ==
    \E t \in h[i].ids :
        /\ Exists(taskHash[t])
        /\ t # h[i].upd.id
        /\ taskHash[t].columnId = h[i].upd.columnId
        /\ needsRebalance(taskHash[t].order, h[i].upd.order)

\* C23: after its write, moveTask enqueues a rebalance job for the column
\* whenever a neighbour of the moved task is closer than the threshold,
\* whatever the position of the moved task.
C23_CloseNeighbourEnqueuesRebalance ==
    [][\A i \in Handlers :
          (ChecksNeighbours(i) /\ CloseNeighbour(i)) =>
              /\ h'[i].pc = "enq_get"
              /\ h'[i].jb = RebalanceJob(h[i].upd.columnId)]_vars

\* Two tasks cached in column c have equal order.
Collision(c) ==
    \E a, b \in CachedIn(taskHash, c) :
        a # b /\ taskHash[a].order = taskHash[b].order

\* C24: when the handlers have returned, a column in which two cached tasks
\* have equal order has a rebalance job waiting or running.
C24_CollisionHasRebalanceJob ==
    \A c \in Columns :
        (Quiet /\ Collision(c)) =>
            jobs[<<"rebalance", c>>].state \in {"delayed", "active"}

\* Handler i is in createTask, has read a board without the id it creates,
\* and takes the step that follows the read.
CreatesNewId(i) ==
    /\ h[i].pc = "cr_cache"
    /\ h'[i] # h[i]
    /\ \A t \in h[i].all : t.id # h[i].p.id

\* C25: createTask on an id that is not on the board it read caches and
\* returns a task with that id, version 1 and an order above every order the
\* board had in the target column (0.5 in an empty column).
C25_CreateAppendsBelowColumn ==
    [][\A i \in Handlers :
          CreatesNewId(i) =>
              LET task == taskHash'[h[i].p.id]
                  column == {t \in h[i].all : t.columnId = h[i].p.columnId}
              IN /\ task.id = h[i].p.id
                 /\ task.version = 1
                 /\ task.columnId = h[i].p.columnId
                 /\ \A t \in column : task.order > t.order
                 /\ column = {} => task.order = OrderScale \div 2
                 /\ h'[i].upd = task]_vars

\* C26: orderBetween(a, b) lies strictly between a and b when a < b,
\* orderBetween(null, x) is less than x and orderBetween(x, null) is greater
\* than x, for every x.
C26_OrderBetweenStrictlyBetween ==
    (calc.fn = "orderBetween" /\ calc.done) =>
        LET prev == calc.args[1]
            next == calc.args[2]
        IN /\ (prev # <<>> /\ next # <<>> /\ prev[1] < next[1]) =>
                  (~calc.thrown /\ prev[1] < calc.value /\ calc.value < next[1])
           /\ (prev = <<>> /\ next # <<>>) =>
                  (~calc.thrown /\ calc.value < next[1])
           /\ (prev # <<>> /\ next = <<>>) =>
                  (~calc.thrown /\ calc.value > prev[1])

\* C27: orderBetween(prev, next) throws the range error when prev and next
\* are both numbers and prev >= next, and returns (low + high) / 2 with
\* low = prev ?? 0 and high = next ?? low + 1 in every other case.
C27_OrderBetweenThrowsOnlyWhenBothGiven ==
    (calc.fn = "orderBetween" /\ calc.done) =>
        LET prev == calc.args[1]
            next == calc.args[2]
            low == IF prev = <<>> THEN 0 ELSE prev[1]
            high == IF next = <<>> THEN low + OrderScale ELSE next[1]
        IN IF prev # <<>> /\ next # <<>> /\ prev[1] >= next[1]
           THEN calc.thrown
           ELSE ~calc.thrown /\ 2 * calc.value = low + high

\* C28: mergeMovAndEdit(current, move, edit) returns current with columnId
\* and order replaced by those of move when move is given, title and
\* description replaced by those of edit when edit is given, and the version
\* raised by one; id, createdAt and the creator fields are those of current.
C28_MergeTakesMoveAndEdit ==
    (calc.fn = "mergeMovAndEdit" /\ calc.done) =>
        LET current == calc.args[1]
            move == calc.args[2]
            edit == calc.args[3]
            task == calc.value
        IN /\ ~calc.thrown
           /\ task.columnId = (IF move # <<>> THEN move[1].columnId ELSE current.columnId)
           /\ task.order = (IF move # <<>> THEN move[1].order ELSE current.order)
           /\ task.title = (IF edit # <<>> THEN edit[1].title ELSE current.title)
           /\ task.description =
                  (IF edit # <<>> THEN edit[1].description ELSE current.description)
           /\ task.version = current.version + 1
           /\ task.id = current.id
           /\ task.createdAt = current.createdAt
           /\ task.creatorName = current.creatorName
           /\ task.creatorColor = current.creatorColor

\* A merge has returned for a move to another place together with an edit
\* that empties the description.
C28_Witness ==
    /\ calc.fn = "mergeMovAndEdit"
    /\ calc.done
    /\ calc.args[2] # <<>>
    /\ calc.args[2][1].columnId # calc.args[1].columnId
    /\ calc.args[3] # <<>>
    /\ calc.args[3][1].description = ""
    /\ calc.value.description = ""

\* C29: when getAllPresences has returned, presence:active holds none of the
\* ids whose hash was missing when the call read it, and the list returned is
\* exactly the ids read from the set whose hash was there.
C29_PresencesHealActiveSet ==
    gap.pc = "returned" =>
        /\ gap.presences \cap gap.staleIds = {}
        /\ gap.presences \cup gap.staleIds = gap.socketIds
        /\ pres.active \cap (gap.socketIds \ gap.presences) = {}

\* getAllPresences has returned after removing a stale id, and another
\* connection has registered since.
C29_Witness ==
    /\ gap.pc = "returned"
    /\ gap.staleIds # {}
    /\ gap.presences # {}
    /\ pres.active \ gap.socketIds # {}

\* C30: getAllTasks returns the tasks sorted by (columnId, order): the tasks
\* of a column are next to each other and ascending by order.
C30_TasksSortedByColumnThenOrder ==
    (calc.fn = "getAllTasks" /\ calc.done) =>
        LET tasks == calc.value
        IN /\ \A a, b, c \in 1..Len(tasks) :
                 (a < b /\ b < c /\ tasks[a].columnId = tasks[c].columnId) =>
                     tasks[b].columnId = tasks[a].columnId
           /\ \A a, b \in 1..Len(tasks) :
                 (a < b /\ tasks[a].columnId = tasks[b].columnId) =>
                     tasks[a].order <= tasks[b].order

\* C31: a TASK_MOVE that does not get the lock changes nothing: the steps of
\* its failed acquireMoveLock and of its conflict branch leave the task
\* hashes, the column sets, the board set, the locks and the queue as they
\* are, and the handler has not replaced any cached task before them either.
C31_LosingMoveChangesNothing ==
    [][\A i \in Handlers :
          (h[i].op = "move" /\ ~h[i].acquired /\ h[i].pc \in {"mv_acquire", "mv_conflict"}
             /\ h'[i] # h[i] /\ h'[i].pc \in {"mv_conflict", "done"}) =>
              /\ <<taskHash', colSet', boardSet', lock', jobs'>> =
                     <<taskHash, colSet, boardSet, lock, jobs>>
              /\ ~h[i].wrote]_vars

\* C32: a handleTaskMove that acquired the lock finishes only through
\* releaseMoveLock, after which the key is gone, whether moveTask succeeded
\* or returned an error; a lock key that is held, also one left by a crashed
\* holder, is eventually gone, and acquireMoveLock on a free key succeeds.
C32_LockReleasedOrExpires ==
    /\ [][\A i \in Handlers :
             /\ (h[i].acquired /\ h'[i].pc = "done") =>
                    (h[i].pc = "mv_release" /\ lock'[h[i].p.id] = NoOwner)
             /\ (h[i].pc = "mv_acquire" /\ lock[h[i].p.id] = NoOwner /\ h'[i] # h[i]
                   /\ h'[i].pc # "crashed") =>
                    (h'[i].acquired /\ lock'[h[i].p.id] = SERVER_ID)]_vars
    /\ \A t \in TaskIds : (lock[t] # NoOwner) ~> (lock[t] = NoOwner)

\* A handler crashed holding the lock of a task, and a later TASK_MOVE on the
\* same task holds the lock.
C32_Witness ==
    \E i, k \in Handlers :
        /\ h[i].pc = "crashed"
        /\ h[i].acquired
        /\ h[k].pc \notin {"crashed", "done"}
        /\ h[k].acquired
        /\ h[k].p.id = h[i].p.id
        /\ lock[h[k].p.id] = SERVER_ID

\* C33: moveTask and updateTask on an existing task, run one after the other
\* to completion, leave the same columnId, order, title, description and
\* version in either order: the move's place, the update's text and the
\* version advanced by two.
C33_MoveAndUpdateCommute ==
    \A k \in 1..(Len(hist) - 1) :
        LET first == hist[k].op
            second == hist[k + 1].op
            t == first.payload.id
            existing == hist[k].taskHash[t]
            move == IF first.type = "TASK_MOVE" THEN first.payload ELSE second.payload
            update == IF first.type = "TASK_MOVE" THEN second.payload ELSE first.payload
            task == IF k + 2 <= Len(hist) THEN hist[k + 2].taskHash[t] ELSE taskHash[t]
        IN (/\ {first.type, second.type} = {"TASK_MOVE", "TASK_UPDATE"}
            /\ second.payload.id = t
            /\ Exists(existing)
            /\ k + 2 <= Len(hist) \/ h[ReplaySlot].pc \in {"idle", "done"}) =>
               task = [existing EXCEPT
                          !.columnId = move.columnId,
                          !.order = move.order,
                          !.title = IF update.title = Null THEN @ ELSE update.title,
                          !.description = IF update.description = Null THEN @
                                          ELSE update.description,
                          !.version = @ + 2]

\* A move, an update and a move again have run one after the other on an
\* existing task: both orders of the pair have been completed.
C33_Witness ==
    /\ Len(hist) = 3
    /\ h[ReplaySlot].pc = "done"
    /\ hist[1].op.type = "TASK_MOVE"
    /\ hist[2].op.type = "TASK_UPDATE"
    /\ hist[3].op.type = "TASK_MOVE"
    /\ Exists(hist[1].taskHash[InitTask1.id])
    /\ taskHash[InitTask1.id].version = InitTask1.version + 3

\* C34: the write of a successful updateTask leaves the cached columnId and
\* order of its task as they are, the write of a successful moveTask leaves
\* its title and description as they are, and both leave the task's id and
\* every other task's hash as they are.
C34_UpdateAndMoveKeepOtherFields ==
    [][\A i \in Handlers :
          LET t == h[i].p.id
          IN (h[i].pc \in {"up_cache", "mv_cache"} /\ h'[i].pc # h[i].pc
                 /\ Exists(taskHash[t])) =>
                /\ taskHash'[t].id = taskHash[t].id
                /\ \A x \in TaskIds \ {t} : taskHash'[x] = taskHash[x]
                /\ h[i].pc = "up_cache" =>
                       /\ taskHash'[t].columnId = taskHash[t].columnId
                       /\ taskHash'[t].order = taskHash[t].order
                /\ h[i].pc = "mv_cache" =>
                       /\ taskHash'[t].title = taskHash[t].title
                       /\ taskHash'[t].description = taskHash[t].description]_vars

\* C35: once deleteTask(id) has completed (TASK_DELETED is out) and no
\* TASK_CREATE of that id has been received, the task is not in the cache:
\* neither a TASK_UPDATE or TASK_MOVE in flight during the delete nor one that
\* arrives before the delete job has run puts it back.
C35_DeletedStaysDeleted ==
    \A t \in TaskIds :
        (/\ WireEvents("TASK_DELETED", t) # {}
         /\ WireEvents("TASK_CREATED", t) = {}
         /\ \A i \in Handlers : ~(h[i].op = "create" /\ h[i].p.id = t)) =>
            ~Exists(taskHash[t])

\* C36: no two of the TASK_CREATED, TASK_UPDATED and TASK_MOVED broadcasts
\* about one task carry the same version with a different columnId, order,
\* title or description.
C36_OneContentPerVersion ==
    \A j, k \in 1..Len(wire) :
        (/\ wire[j].ev \in Broadcasts
         /\ wire[k].ev \in Broadcasts
         /\ wire[j].task.id = wire[k].task.id
         /\ wire[j].task.version = wire[k].task.version) =>
            wire[j].task = wire[k].task

\* C37: the operations of one REPLAY_OPS batch do not conflict with each
\* other: no handler of the batch is refused the lock, no CONFLICT_NOTIFY is
\* sent, and every TASK_MOVE of the batch on a cached task is applied.
C37_ReplayedMovesDoNotConflict ==
    /\ \A i \in Handlers : h[i].pc # "mv_conflict"
    /\ \A k \in 1..Len(wire) : wire[k].ev # "CONFLICT_NOTIFY"
    /\ \A k \in 1..Len(hist) :
          LET t == hist[k].op.payload.id
              task == IF k < Len(hist) THEN hist[k + 1].taskHash[t] ELSE taskHash[t]
          IN (/\ hist[k].op.type = "TASK_MOVE"
              /\ Exists(hist[k].taskHash[t])
              /\ k < Len(hist) \/ h[ReplaySlot].pc \in {"idle", "done"}) =>
                 task = MovedTask(hist[k].taskHash[t], hist[k].op.payload)

\* Two TASK_MOVE operations of one batch on the same cached task have both
\* been applied.
C37_Witness ==
    /\ Len(hist) >= 2
    /\ h[ReplaySlot].pc = "done"
    /\ hist[Len(hist)].op.type = "TASK_MOVE"
    /\ hist[Len(hist) - 1].op.type = "TASK_MOVE"
    /\ hist[Len(hist)].n = hist[Len(hist) - 1].n
    /\ Exists(hist[Len(hist) - 1].taskHash[InitTask1.id])
    /\ Cardinality(WireEvents("TASK_MOVED", InitTask1.id)) >= 2

\* C38: once a connection has disconnected and its onConnect,
\* handlePresenceUpdate and onDisconnect have finished, its id is not in
\* presence:active with a live presence hash, and no PRESENCE_STATE sent
\* from then on lists it.
C38_DisconnectedHasNoPresence ==
    \A c \in ConnIds :
        Finished(c) =>
            /\ ~(c \in pres.active /\ c \in pres.hash)
            /\ ~conn[c].late

\* C39: a rebalance job for column C leaves alone the cached record of every
\* task that is cached in another column, does not bring the durable column
\* of a task back to C, creates no cache record for a task that has none, and
\* changes no cached or durable title, description or columnId.
C39_RebalanceTouchesOnlyItsColumn ==
    [][\A j \in JobIds :
          (/\ jobs[j].state = "active"
           /\ jobs[j].operation = "rebalance"
           /\ jobs[j].step \in {"upsert", "hset"}
           /\ jobs'[j] # jobs[j]) =>
              \A t \in TaskIds :
                 /\ (Exists(taskHash[t]) /\ taskHash[t].columnId # jobs[j].columnId) =>
                        taskHash'[t] = taskHash[t]
                 /\ (Exists(db[t]) /\ db[t].columnId # jobs[j].columnId) =>
                        db'[t].columnId = db[t].columnId
                 /\ taskHash[t] = NoTask => taskHash'[t] = NoTask
                 /\ Exists(taskHash[t]) =>
                        taskHash'[t] = [taskHash[t] EXCEPT !.order = taskHash'[t].order]
                 /\ Exists(db[t]) =>
                        db'[t] = [db[t] EXCEPT !.order = db'[t].order]]_vars

\* C40: getAllTasks returns every task that getTask would return, from the
\* cache or from durable storage: when handleTaskMove does not find the task
\* in the result and answers NOT_FOUND, the task has neither a cache record
\* nor a durable row.
C40_GetAllTasksFindsLiveTask ==
    [][\A i \in Handlers :
          (/\ h[i].op = "move"
           /\ h[i].ret = "mv_find"
           /\ h[i].pc \in {"gat_hgetall", "gat_select", "gat_warm"}
           /\ h'[i].pc = "err_emit"
           /\ h'[i].err = "NOT_FOUND") =>
              /\ ~Exists(taskHash[h[i].p.id])
              /\ ~Exists(db[h[i].p.id])]_vars

====
